---- MODULE Spec2Model ----
(***************************************************************************)
(* Model of saneterm's pty output parser (saneterm/pty.py): the            *)
(* PositionedIterator, the CSI / SGR parsers and Parser.parse; of the      *)
(* style tracking of Terminal.handle_pty (saneterm/terminal.py), of        *)
(* Color.to_gdk (saneterm/color.py) and of History (saneterm/history.py).  *)
(*                                                                         *)
(* Python strings are sequences of code points.  Python indices are kept   *)
(* 0-based as in the source: the character at Python index i of a string   *)
(* w is w[i + 1].  A Python exception is a value: every operator that can  *)
(* raise returns a record whose field exc names the exception ("none"      *)
(* when it returns normally).                                              *)
(***************************************************************************)
EXTENDS Integers, Sequences, FiniteSets, TLC

VARIABLES
    input,       \* the whole character stream the child process writes
    fed,         \* number of characters of input handed to parse so far
    leftover,    \* Parser.__leftover
    events,      \* every event yielded so far, in order, over all calls
    lastLeft,    \* self.__leftover when the last parse call began
    lastChunk,   \* the argument of the last parse call
    lastBuf,     \* what the last parse call scanned (it.wrapped)
    lastEvents,  \* the events yielded by the last parse call
    lastExc,     \* the exception that escaped the last parse call
    active_text_tags,  \* Terminal.active_text_tags: TextStyleChange -> tag
    cached_text_tags,  \* the event payloads Terminal.cached_text_tags holds
    shown,       \* the termview.insert_data calls: text and tags, in order
    urgent,      \* the window's urgency hint
    wrapped,     \* PositionedIterator.wrapped
    iter,        \* PositionedIterator.pos and PositionedIterator.waypoints
    ret,         \* the last call on the iterator and its outcome
    marks,       \* for each waypoint: the element and index it was set at
    got,         \* the elements next() returned since construction
    color,       \* a Color object
    rgba,        \* what color.to_gdk() returned
    hist,        \* the rows of the history table, in rowid order
    exe,         \* the executable of the foreground process
    found,       \* the last History.get_entry call and its result
    hist_index,  \* Terminal.hist_index
    cmdline,     \* the text after the output in the TermView: the input line
    asked,       \* the last history-entry request, if nothing came after it
    scan,        \* one parse call, iteration by iteration of its for loop
    gens         \* the generators parse returned, in the order of the calls

parserVars ==
    <<input, fed, leftover, events, lastLeft, lastChunk, lastBuf, lastEvents,
      lastExc>>

styleVars == <<active_text_tags, cached_text_tags, shown, urgent>>

iterVars == <<wrapped, iter, ret, marks, got>>

colorVars == <<color, rgba>>

histVars == <<hist, exe, found>>

navVars == <<hist_index, cmdline, asked>>

callVars == <<scan, gens>>

restVars == <<navVars, callVars>>

vars == <<parserVars, styleVars, iterVars, colorVars, histVars, restVars>>

----------------------------------------------------------------------------
(* Bounds of the model *)

\* longest stream of the chunked specification
MaxLen == 4
\* most parameters of one SGR sequence in the SGR specification
MaxParams == 2

\* the largest palette index an SGR stream selects
MaxIndex == 300

\* most SGR sequences of one stream of the style specification
MaxChanges == 3

\* longest string a PositionedIterator of the iterator specification wraps
MaxWrapped == 3
\* most waypoints it holds at a time
MaxWaypoints == 2
\* the largest n handed to take
MaxTake == 2

\* History.histsize, the value of HISTSIZE in the environment
HistSize == 3

\* longest string of the scan specification
MaxScan == 5
\* most iterations of the for loop the scan specification follows
MaxIterations == 12

\* longest input line typed in the navigation specification
MaxTyped == 2

\* longest stream of the generator specification
MaxStream == 4

----------------------------------------------------------------------------
(* Characters *)

BEL == 7
ESC == 27
LBRACKET == 91
CharM == 109
Colon == 58
Semicolon == 59
Digit0 == 48

\* '1', ' ' and '\n': a parameter byte, an intermediate byte and a character
\* of no CSI class.  '[' and 'm' are final bytes and ordinary text as well.
Alphabet == {BEL, ESC, LBRACKET, CharM, 49, 32, 10}

Max(a, b) == IF a >= b THEN a ELSE b

\* Python's s[a:b] for 0 <= a and b <= len(s)
Slice(s, a, b) == IF b <= a THEN <<>> ELSE SubSeq(s, a + 1, b)

csi_parameter_byte(c) == c >= 48 /\ c <= 63

csi_intermediate_byte(c) == c >= 32 /\ c <= 47

csi_final_byte(c) == c >= 64 /\ c <= 126

\* the predicates handed to takewhile_greedy, by name
Pred(f, c) ==
    CASE f = "param" -> csi_parameter_byte(c)
      [] f = "inter" -> csi_intermediate_byte(c)
      [] f = "notsemi" -> c # Semicolon

----------------------------------------------------------------------------
(* PositionedIterator over the string w; it = [pos, waypoints].  A value   *)
(* an operator needs more than once is handed to a helper as an argument.  *)

\* an iterator constructed on its first element
NewIterator_AtFirst == [pos |-> 0, waypoints |-> <<>>]

\* __init__
NewIterator == [pos |-> -1, waypoints |-> <<>>]

\* __next__: the element, or StopIteration with pos left unchanged
\* (a negative index no smaller than -len(w) reads from the end of w)
ItNext(w, it) ==
    IF it.pos + 1 >= 0 /\ it.pos + 1 < Len(w)
    THEN [exc |-> "none", val |-> w[it.pos + 2],
          it |-> [it EXCEPT !.pos = it.pos + 1]]
    ELSE IF it.pos + 1 < 0 /\ it.pos + 1 >= -Len(w)
    THEN [exc |-> "none", val |-> w[Len(w) + it.pos + 2],
          it |-> [it EXCEPT !.pos = it.pos + 1]]
    ELSE [exc |-> "StopIteration", val |-> -1, it |-> it]

\* the waypoint set at the current position, not one before it
ItWaypoint_AtPos(it) ==
    [it EXCEPT !.waypoints = Append(it.waypoints, it.pos)]

\* the waypoint one before the position, with no floor at -1
ItWaypoint_NoFloor(it) ==
    [it EXCEPT !.waypoints = Append(it.waypoints, it.pos - 1)]

ItWaypoint(it) ==
    [it EXCEPT !.waypoints = Append(it.waypoints, Max(it.pos - 1, -1))]

\* backtrack() leaving its waypoint on the list
ItBacktrack_Keep(it) ==
    IF Len(it.waypoints) = 0
    THEN [exc |-> "IndexError", it |-> it]
    ELSE [exc |-> "none",
          it |-> [it EXCEPT !.pos = it.waypoints[Len(it.waypoints)]]]

\* backtrack() returning to the first waypoint set, not to the last
ItBacktrack_First(it) ==
    IF Len(it.waypoints) = 0
    THEN [exc |-> "IndexError", it |-> it]
    ELSE [exc |-> "none",
          it |-> [pos |-> it.waypoints[1],
                  waypoints |-> SubSeq(it.waypoints, 2, Len(it.waypoints))]]

\* list.pop() of an empty list raises IndexError
ItBacktrack(it) ==
    IF Len(it.waypoints) = 0
    THEN [exc |-> "IndexError", it |-> it]
    ELSE [exc |-> "none",
          it |-> [pos |-> it.waypoints[Len(it.waypoints)],
                  waypoints |-> SubSeq(it.waypoints, 1, Len(it.waypoints) - 1)]]

\* empty() true only once a next() has failed
ItEmpty_Never(w, it) == it.pos = Len(w)

ItEmpty(w, it) == it.pos + 1 = Len(w)

RECURSIVE TakewhileLoop(_, _, _, _)
\* x = self.__next__() in the loop body; r is its outcome
TakewhileNext(w, f, r) ==
    IF r.exc # "none" THEN r ELSE TakewhileLoop(w, r.it, f, r.val)

\* while f(x): x is the element just received
TakewhileLoop(w, it, f, x) ==
    IF Pred(f, x)
    THEN TakewhileNext(w, f, ItNext(w, it))
    ELSE [exc |-> "none", val |-> x, it |-> it]

\* takewhile_greedy without self.pos -= 1
TakewhileSlice_NoRewind(w, start, r) ==
    IF r.exc # "none"
    THEN [exc |-> r.exc, val |-> <<>>, it |-> r.it]
    ELSE [exc |-> "none", val |-> Slice(w, start, r.it.pos), it |-> r.it]

\* end = self.pos; self.pos -= 1; return self.wrapped[start:end]
TakewhileSlice(w, start, r) ==
    IF r.exc # "none"
    THEN [exc |-> r.exc, val |-> <<>>, it |-> r.it]
    ELSE [exc |-> "none", val |-> Slice(w, start, r.it.pos),
          it |-> [r.it EXCEPT !.pos = r.it.pos - 1]]

\* r0 is the outcome of the first __next__(); start = self.pos
TakewhileFirst(w, f, r0) ==
    IF r0.exc # "none"
    THEN [exc |-> r0.exc, val |-> <<>>, it |-> r0.it]
    ELSE TakewhileSlice(w, r0.it.pos, TakewhileLoop(w, r0.it, f, r0.val))

takewhile_greedy(w, it, f) == TakewhileFirst(w, f, ItNext(w, it))

RECURSIVE TakeLoop(_, _, _)
TakeNext(w, n, r) ==
    IF r.exc # "none" THEN r ELSE TakeLoop(w, r.it, n - 1)

\* for _ in range(n): _ = self.__next__()
TakeLoop(w, it, n) ==
    IF n = 0 THEN [exc |-> "none", val |-> -1, it |-> it]
    ELSE TakeNext(w, n, ItNext(w, it))

\* take with end = self.pos
TakeSlice_Short(w, start, r) ==
    IF r.exc # "none"
    THEN [exc |-> r.exc, val |-> <<>>, it |-> r.it]
    ELSE [exc |-> "none", val |-> Slice(w, start, r.it.pos), it |-> r.it]

\* end = self.pos + 1; return self.wrapped[start:end]
TakeSlice(w, start, r) ==
    IF r.exc # "none"
    THEN [exc |-> r.exc, val |-> <<>>, it |-> r.it]
    ELSE [exc |-> "none", val |-> Slice(w, start, r.it.pos + 1), it |-> r.it]

take(w, it, n) == TakeSlice(w, it.pos + 1, TakeLoop(w, it, n))

----------------------------------------------------------------------------
(* Events: (EventType, payload) tuples, as records of one shape *)

NoValue == [tag |-> "None", data |-> <<>>]

TextEvent(s) ==
    [type |-> "TEXT", text |-> s, change |-> "", value |-> NoValue]

BellEvent ==
    [type |-> "BELL", text |-> <<>>, change |-> "", value |-> NoValue]

StyleEvent(change, value) ==
    [type |-> "TEXT_STYLE", text |-> <<>>, change |-> change, value |-> value]

Value(tag) == [tag |-> tag, data |-> <<>>]

----------------------------------------------------------------------------
(* Color.__init__ (saneterm/color.py) *)

\* BasicColor(n): ValueError unless n is a member of the enum
BasicColor(n) ==
    IF n \in 0..7 THEN [exc |-> "none", val |-> n]
    ELSE [exc |-> "ValueError", val |-> n]

Color(t, data) ==
    CASE t = "TRUECOLOR" ->
            IF Len(data) # 3
            THEN [exc |-> "TypeError", val |-> NoValue]
            ELSE [exc |-> "none", val |-> [tag |-> t, data |-> data]]
      [] t \in {"NUMBERED_8", "NUMBERED_8_BRIGHT"} ->
            [exc |-> "none", val |-> [tag |-> t, data |-> data]]
      [] t = "NUMBERED_256" ->
            IF ~(data[1] >= 0 /\ data[1] < 256)
            THEN [exc |-> "TypeError", val |-> NoValue]
            ELSE [exc |-> "none", val |-> [tag |-> t, data |-> data]]
      [] OTHER -> [exc |-> "TypeError", val |-> NoValue]

----------------------------------------------------------------------------
(* Color.to_gdk (saneterm/color.py).  A channel of a Gdk.RGBA is the pair  *)
(* <<numerator, denominator>> of the quotient the code computes.           *)

BASIC_COLOR_NAMES_REGULAR ==
    <<"black", "red3", "green3", "yellow3", "blue2", "magenta3", "cyan3",
      "gray90">>

BASIC_COLOR_NAMES_BRIGHT ==
    <<"gray50", "red", "green", "yellow", "CornflowerBlue", "magenta",
      "cyan", "white">>

\* no Gdk.RGBA
NoRgba == [kind |-> "none", name |-> "", channels |-> <<>>]

\* color = Gdk.RGBA(); color.parse(name)
RgbaParsed(name) == [kind |-> "parse", name |-> name, channels |-> <<>>]

\* Gdk.RGBA(red, green, blue, alpha)
Rgba(red, green, blue, alpha) ==
    [kind |-> "rgba", name |-> "", channels |-> <<red, green, blue, alpha>>]

\* the channel value without the step from black to the first level
extended_color_val_Linear(x) == <<x * 40 + 55, 255>>

extended_color_val(x) == <<IF x > 0 THEN x * 40 + 55 ELSE 0, 255>>

int_triple_to_rgba(c) ==
    Rgba(<<c[1], 255>>, <<c[2], 255>>, <<c[3], 255>>, <<1, 1>>)

\* n is the value of the BasicColor
basic_color_to_rgba(n, bright) ==
    RgbaParsed(IF bright THEN BASIC_COLOR_NAMES_BRIGHT[n + 1]
               ELSE BASIC_COLOR_NAMES_REGULAR[n + 1])

\* (r, tmp) = divmod(tmp, 36); (g, b) = divmod(tmp, 6);
\* Gdk.RGBA(*triple): alpha is the default of the constructor
CubeRgba(tmp) ==
    Rgba(extended_color_val(tmp \div 36),
         extended_color_val((tmp % 36) \div 6),
         extended_color_val((tmp % 36) % 6),
         <<1, 1>>)

\* c = (self.data - 232) * (1.0/24)
GrayRgba(n) == Rgba(<<n, 24>>, <<n, 24>>, <<n, 24>>, <<1, 1>>)

to_gdk(c) ==
    CASE c.tag = "NUMBERED_8" -> basic_color_to_rgba(c.data[1], FALSE)
      [] c.tag = "NUMBERED_8_BRIGHT" -> basic_color_to_rgba(c.data[1], TRUE)
      [] c.tag = "TRUECOLOR" -> int_triple_to_rgba(c.data)
      [] c.tag = "NUMBERED_256" ->
            IF c.data[1] < 8
            THEN basic_color_to_rgba(BasicColor(c.data[1]).val, FALSE)
            ELSE IF c.data[1] >= 8 /\ c.data[1] < 16
            THEN basic_color_to_rgba(BasicColor(c.data[1] - 8).val, TRUE)
            ELSE IF c.data[1] >= 16 /\ c.data[1] < 232
            THEN CubeRgba(c.data[1] - 16)
            ELSE GrayRgba(c.data[1] - 232)

----------------------------------------------------------------------------
(* SGR parameters *)

\* the values of the SgrParam enum
SgrParamValues == (0..55) \cup (60..65) \cup (90..97) \cup (100..107)

IsDigit(c) == c >= 48 /\ c <= 57

RECURSIVE IntValue(_)
IntValue(p) ==
    IF Len(p) = 0 THEN 0
    ELSE 10 * IntValue(SubSeq(p, 1, Len(p) - 1)) + (p[Len(p)] - Digit0)

\* int(p) for a string p of CSI parameter bytes: ValueError unless p is a
\* non-empty string of decimal digits
PyInt(p) ==
    IF Len(p) > 0 /\ \A i \in 1..Len(p) : IsDigit(p[i])
    THEN [exc |-> "none", val |-> IntValue(p)]
    ELSE [exc |-> "ValueError", val |-> 0]

RECURSIVE SplitLoop(_, _, _, _)
SplitLoop(s, i, cur, acc) ==
    IF i > Len(s) THEN Append(acc, cur)
    ELSE IF s[i] = Colon \/ s[i] = Semicolon
    THEN SplitLoop(s, i + 1, <<>>, Append(acc, cur))
    ELSE SplitLoop(s, i + 1, Append(cur, s[i]), acc)

\* re.split(r'[:;]', params)
ReSplit(params) == SplitLoop(params, 1, <<>>, <<>>)

\* h is int() of the first channel, t the outcome for the others
IntsCons(h, t) ==
    IF h.exc # "none" THEN [exc |-> h.exc, val |-> <<>>]
    ELSE IF t.exc # "none" THEN t
    ELSE [exc |-> "none", val |-> <<h.val>> \o t.val]

RECURSIVE IntsOf(_)
\* tuple(int(c) for c in channels): the first failing int() raises
IntsOf(channels) ==
    IF Len(channels) = 0 THEN [exc |-> "none", val |-> <<>>]
    ELSE IntsCons(PyInt(channels[1]), IntsOf(SubSeq(channels, 2, Len(channels))))

\* Color(ColorType.NUMBERED_256, int(args[1])), n being int(args[1])
Color256Of(n) ==
    IF n.exc # "none" THEN [exc |-> n.exc, val |-> NoValue]
    ELSE Color("NUMBERED_256", <<n.val>>)

\* Color(ColorType.TRUECOLOR, tuple(int(c) for c in channels))
TrueColorOf(cs) ==
    IF cs.exc # "none" THEN [exc |-> cs.exc, val |-> NoValue]
    ELSE Color("TRUECOLOR", cs.val)

\* the try block taking the three arguments after the 2 as the channels
\* whatever their number
ExtendedColorBody_NoColorspace(args) ==
    IF Len(args) = 0 THEN [exc |-> "IndexError", val |-> NoValue]
    ELSE IF args[1] = <<53>> THEN
        IF Len(args) # 2 THEN [exc |-> "AssertionError", val |-> NoValue]
        ELSE Color256Of(PyInt(args[2]))
    ELSE IF args[1] = <<50>> THEN
        IF Len(args) >= 4 THEN TrueColorOf(IntsOf(SubSeq(args, 2, 4)))
        ELSE [exc |-> "AssertionError", val |-> NoValue]
    ELSE IF args[1] = <<48>> THEN [exc |-> "none", val |-> NoValue]
    ELSE [exc |-> "AssertionError", val |-> NoValue]

\* the try block of parse_extended_color ("5" is <<53>>, "2" <<50>>,
\* "0" <<48>>)
ExtendedColorBody(args) ==
    IF Len(args) = 0 THEN [exc |-> "IndexError", val |-> NoValue]
    ELSE IF args[1] = <<53>> THEN
        IF Len(args) # 2 THEN [exc |-> "AssertionError", val |-> NoValue]
        ELSE Color256Of(PyInt(args[2]))
    ELSE IF args[1] = <<50>> THEN
        IF Len(args) = 4 THEN TrueColorOf(IntsOf(SubSeq(args, 2, 4)))
        ELSE IF Len(args) >= 5 THEN TrueColorOf(IntsOf(SubSeq(args, 3, 5)))
        ELSE [exc |-> "AssertionError", val |-> NoValue]
    ELSE IF args[1] = <<48>> THEN [exc |-> "none", val |-> NoValue]
    ELSE [exc |-> "AssertionError", val |-> NoValue]

\* parse_extended_color without its except clauses
ConvertExceptions_None(r) == r

\* the except clauses turn IndexError, TypeError and ValueError into
\* AssertionError
ConvertExceptions(r) ==
    IF r.exc \in {"IndexError", "TypeError", "ValueError"}
    THEN [exc |-> "AssertionError", val |-> NoValue]
    ELSE r

parse_extended_color(args) == ConvertExceptions(ExtendedColorBody(args))

\* SgrParam(int(p)) with its ValueError caught: -1 stands for None
SgrTypeOf(n) ==
    IF n.exc = "none" /\ n.val \in SgrParamValues THEN n.val ELSE -1

\* the empty parameter skipped as an invalid one
SgrType_EmptyInvalid(p) == IF Len(p) = 0 THEN -1 ELSE SgrTypeOf(PyInt(p))

\* sgr_type of one parameter
SgrType(p) == IF Len(p) = 0 THEN 0 ELSE SgrTypeOf(PyInt(p))

NoPayload == [some |-> FALSE, change |-> "", value |-> NoValue]

Payload(change, value) == [some |-> TRUE, change |-> change, value |-> value]

Plain(payload) == [exc |-> "none", payload |-> payload]

PayloadOfColor(change, c) ==
    [exc |-> c.exc, payload |-> Payload(change, c.val)]

\* (change, Color(t, BasicColor(n))), b being BasicColor(n)
BasicPayloadOf(change, t, b) ==
    IF b.exc # "none" THEN [exc |-> b.exc, payload |-> NoPayload]
    ELSE PayloadOfColor(change, Color(t, <<b.val>>))

\* every basic color built as a regular one
BasicPayload_Regular(change, t, n) ==
    BasicPayloadOf(change, "NUMBERED_8", BasicColor(n))

BasicPayload(change, t, n) == BasicPayloadOf(change, t, BasicColor(n))

\* try: (change, parse_extended_color(params_it)) except AssertionError: pass
ExtendedPayloadOf(change, r) ==
    IF r.exc = "AssertionError" THEN [exc |-> "none", payload |-> NoPayload]
    ELSE [exc |-> r.exc, payload |-> Payload(change, r.val)]

\* every extended color taken as a foreground color
ExtendedPayload_Foreground(change, args) ==
    ExtendedPayloadOf("FOREGROUND_COLOR", parse_extended_color(args))

ExtendedPayload(change, args) ==
    ExtendedPayloadOf(change, parse_extended_color(args))

\* the if/elif chain of parse_sgr_sequence; rest are the parameters still
\* in params_it
SgrChange(t, rest) ==
    CASE t = -1 -> Plain(NoPayload)
      [] t = 0 -> Plain(Payload("RESET", NoValue))
      [] t = 1 -> Plain(Payload("WEIGHT", Value("Weight.BOLD")))
      [] t = 2 -> Plain(Payload("WEIGHT", Value("Weight.THIN")))
      [] t = 3 -> Plain(Payload("ITALIC", Value("True")))
      [] t = 4 -> Plain(Payload("UNDERLINE", Value("Underline.SINGLE")))
      [] t = 8 -> Plain(Payload("CONCEALED", Value("True")))
      [] t = 9 -> Plain(Payload("STRIKETHROUGH", Value("True")))
      [] t = 21 -> Plain(Payload("UNDERLINE", Value("Underline.DOUBLE")))
      [] t = 22 -> Plain(Payload("WEIGHT", Value("Weight.NORMAL")))
      [] t = 23 -> Plain(Payload("ITALIC", Value("False")))
      [] t = 24 -> Plain(Payload("UNDERLINE", Value("Underline.NONE")))
      [] t = 28 -> Plain(Payload("CONCEALED", Value("False")))
      [] t = 29 -> Plain(Payload("STRIKETHROUGH", Value("False")))
      [] t >= 30 /\ t <= 37 ->
            BasicPayload("FOREGROUND_COLOR", "NUMBERED_8", t - 30)
      [] t = 38 -> ExtendedPayload("FOREGROUND_COLOR", rest)
      [] t = 39 -> Plain(Payload("FOREGROUND_COLOR", NoValue))
      [] t >= 40 /\ t <= 47 ->
            BasicPayload("BACKGROUND_COLOR", "NUMBERED_8", t - 40)
      [] t = 48 -> ExtendedPayload("BACKGROUND_COLOR", rest)
      [] t = 49 -> Plain(Payload("BACKGROUND_COLOR", NoValue))
      [] t >= 90 /\ t <= 97 ->
            BasicPayload("FOREGROUND_COLOR", "NUMBERED_8_BRIGHT", t - 90)
      [] t >= 107 /\ t <= 90 ->
            BasicPayload("BACKGROUND_COLOR", "NUMBERED_8_BRIGHT", t - 100)
      [] OTHER -> Plain(NoPayload)

\* the event appended twice
SgrAppend_Twice(evs, payload) ==
    IF payload.some
    THEN evs \o <<StyleEvent(payload.change, payload.value),
                  StyleEvent(payload.change, payload.value)>>
    ELSE evs

\* the event put before those of the earlier parameters
SgrAppend_Prepend(evs, payload) ==
    IF payload.some
    THEN <<StyleEvent(payload.change, payload.value)>> \o evs
    ELSE evs

\* if change_payload != None: special_evs.append((TEXT_STYLE, change_payload))
SgrAppend(evs, payload) ==
    IF payload.some
    THEN Append(evs, StyleEvent(payload.change, payload.value))
    ELSE evs

RECURSIVE SgrLoop(_, _, _, _)
\* the loop without its break
SgrContinue_NoBreak(ps, j, single_param_with_args, evs) ==
    SgrLoop(ps, j, single_param_with_args, evs)

\* if single_param_with_args: break
SgrContinue(ps, j, single_param_with_args, evs) ==
    IF single_param_with_args THEN [exc |-> "none", evs |-> evs]
    ELSE SgrLoop(ps, j, single_param_with_args, evs)

\* r is the outcome of the if/elif chain, j the parameter params_it yields
\* next
SgrAfter(ps, j, single_param_with_args, evs, r) ==
    IF r.exc # "none" THEN [exc |-> r.exc, evs |-> evs]
    ELSE SgrContinue(ps, j, single_param_with_args, SgrAppend(evs, r.payload))

\* the loop left at the first parameter that is no SgrParam
SgrStep_StopAtUnknown(ps, i, single_param_with_args, evs, t) ==
    IF t = -1 THEN [exc |-> "none", evs |-> evs]
    ELSE SgrAfter(ps, IF t \in {38, 48} THEN Len(ps) + 1 ELSE i + 1,
                  single_param_with_args, evs,
                  SgrChange(t, SubSeq(ps, i + 1, Len(ps))))

\* parse_extended_color drains params_it (list(iterator))
SgrStep(ps, i, single_param_with_args, evs, t) ==
    SgrAfter(ps, IF t \in {38, 48} THEN Len(ps) + 1 ELSE i + 1,
             single_param_with_args, evs,
             SgrChange(t, SubSeq(ps, i + 1, Len(ps))))

\* the for loop of parse_sgr_sequence; i is the parameter params_it yields
\* next
SgrLoop(ps, i, single_param_with_args, evs) ==
    IF i > Len(ps) THEN [exc |-> "none", evs |-> evs]
    ELSE SgrStep(ps, i, single_param_with_args, evs, SgrType(ps[i]))

parse_sgr_sequence(params, special_evs) ==
    SgrLoop(ReSplit(params), 1,
            \E i \in 1..Len(params) : params[i] = Colon, special_evs)

\* parse_sgr_sequence(params, special_evs) has returned s
CsiSgr(it, s) == [exc |-> s.exc, it |-> it, evs |-> s.evs]

\* parse_csi_sequence refusing every final byte but 'm'
CsiDispatch_OnlySgr(special_evs, params, final) ==
    IF final.exc # "none"
    THEN [exc |-> final.exc, it |-> final.it, evs |-> special_evs]
    ELSE IF final.val # CharM
    THEN [exc |-> "AssertionError", it |-> final.it, evs |-> special_evs]
    ELSE CsiSgr(final.it, parse_sgr_sequence(params, special_evs))

\* parse_csi_sequence reading every CSI sequence as an SGR sequence
CsiDispatch_AlwaysSgr(special_evs, params, final) ==
    IF final.exc # "none"
    THEN [exc |-> final.exc, it |-> final.it, evs |-> special_evs]
    ELSE IF ~csi_final_byte(final.val)
    THEN [exc |-> "AssertionError", it |-> final.it, evs |-> special_evs]
    ELSE CsiSgr(final.it, parse_sgr_sequence(params, special_evs))

\* final = it.next(); assert csi_final_byte(final); if final == 'm': ...
CsiDispatch(special_evs, params, final) ==
    IF final.exc # "none"
    THEN [exc |-> final.exc, it |-> final.it, evs |-> special_evs]
    ELSE IF ~csi_final_byte(final.val)
    THEN [exc |-> "AssertionError", it |-> final.it, evs |-> special_evs]
    ELSE IF final.val = CharM
    THEN CsiSgr(final.it, parse_sgr_sequence(params, special_evs))
    ELSE [exc |-> "none", it |-> final.it, evs |-> special_evs]

\* inters = it.takewhile_greedy(csi_intermediate_byte) has returned
CsiFinal(w, special_evs, params, inters) ==
    IF inters.exc # "none"
    THEN [exc |-> inters.exc, it |-> inters.it, evs |-> special_evs]
    ELSE CsiDispatch(special_evs, params, ItNext(w, inters.it))

\* params = it.takewhile_greedy(csi_parameter_byte) has returned
CsiInters(w, special_evs, params) ==
    IF params.exc # "none"
    THEN [exc |-> params.exc, it |-> params.it, evs |-> special_evs]
    ELSE CsiFinal(w, special_evs, params.val,
                  takewhile_greedy(w, params.it, "inter"))

\* parse_csi_sequence(it, special_evs): exc is "none", "AssertionError",
\* "StopIteration" or what parse_sgr_sequence lets escape
parse_csi_sequence(w, it, special_evs) ==
    CsiInters(w, special_evs, takewhile_greedy(w, it, "param"))

----------------------------------------------------------------------------
(* Parser.parse *)

NoFlush == [set |-> FALSE, at |-> 0]

FlushAt(i) == [set |-> TRUE, at |-> i]

EscapeCsi(c) == [exc |-> c.exc, it |-> c.it, evs |-> c.evs, ign |-> FALSE]

\* the try statement taking any character after ESC as a complete sequence
EscapeTry_AnyEscape(w, n) ==
    IF n.exc # "none"
    THEN [exc |-> n.exc, it |-> n.it, evs |-> <<>>, ign |-> FALSE]
    ELSE IF n.val = LBRACKET
    THEN EscapeCsi(parse_csi_sequence(w, n.it, <<>>))
    ELSE [exc |-> "none", it |-> n.it, evs |-> <<>>, ign |-> FALSE]

\* the body of the try statement of the ESC branch, n being it.next()
EscapeTry(w, n) ==
    IF n.exc # "none"
    THEN [exc |-> n.exc, it |-> n.it, evs |-> <<>>, ign |-> FALSE]
    ELSE IF n.val = LBRACKET
    THEN EscapeCsi(parse_csi_sequence(w, n.it, <<>>))
    ELSE [exc |-> "none", it |-> n.it, evs |-> <<>>, ign |-> TRUE]

\* the except clauses saving the leftover from the character after the ESC
EscapeHandlers_AfterEsc(w, flush_until, r) ==
    CASE r.exc = "AssertionError" ->
            [exc |-> "none", it |-> r.it, evs |-> r.evs,
             ignore_esc |-> TRUE, leftover |-> <<>>, saved |-> FALSE]
      [] r.exc = "StopIteration" ->
            [exc |-> "none", it |-> r.it, evs |-> r.evs,
             ignore_esc |-> FALSE,
             leftover |-> Slice(w, flush_until + 1, Len(w)), saved |-> TRUE]
      [] OTHER ->
            [exc |-> r.exc, it |-> r.it, evs |-> r.evs,
             ignore_esc |-> r.ign, leftover |-> <<>>, saved |-> FALSE]

\* the except clauses saving the whole input as leftover
EscapeHandlers_WholeInput(w, flush_until, r) ==
    CASE r.exc = "AssertionError" ->
            [exc |-> "none", it |-> r.it, evs |-> r.evs,
             ignore_esc |-> TRUE, leftover |-> <<>>, saved |-> FALSE]
      [] r.exc = "StopIteration" ->
            [exc |-> "none", it |-> r.it, evs |-> r.evs,
             ignore_esc |-> FALSE, leftover |-> w, saved |-> TRUE]
      [] OTHER ->
            [exc |-> r.exc, it |-> r.it, evs |-> r.evs,
             ignore_esc |-> r.ign, leftover |-> <<>>, saved |-> FALSE]

\* the except clauses of the try statement; exc is what escapes it
EscapeHandlers(w, flush_until, r) ==
    CASE r.exc = "AssertionError" ->
            [exc |-> "none", it |-> r.it, evs |-> r.evs,
             ignore_esc |-> TRUE, leftover |-> <<>>, saved |-> FALSE]
      [] r.exc = "StopIteration" ->
            [exc |-> "none", it |-> r.it, evs |-> r.evs,
             ignore_esc |-> FALSE,
             leftover |-> Slice(w, flush_until, Len(w)), saved |-> TRUE]
      [] OTHER ->
            [exc |-> r.exc, it |-> r.it, evs |-> r.evs,
             ignore_esc |-> r.ign, leftover |-> <<>>, saved |-> FALSE]

\* the try statement, entered after it.waypoint()
EscapeAttempt(w, it, flush_until) ==
    EscapeHandlers(w, flush_until, EscapeTry(w, ItNext(w, it)))

\* what the ESC branch leaves: b is the outcome of the backtrack, if any
EscapeResult(st, a, b) ==
    [exc |-> b.exc, it |-> b.it, flush_until |-> FlushAt(st.it.pos),
     special_evs |-> a.evs, ignore_esc |-> a.ignore_esc,
     leftover |-> IF a.saved THEN a.leftover ELSE st.leftover]

\* if ignore_esc: it.backtrack()
EscapeBacktrack(st, a) ==
    EscapeResult(st, a,
                 IF a.exc = "none" /\ a.ignore_esc
                 THEN ItBacktrack(a.it)
                 ELSE [exc |-> a.exc, it |-> a.it])

\* the loop body without its BEL branch
Dispatch_NoBel(w, st, code) ==
    IF code = ESC
    THEN IF st.ignore_esc
         THEN [exc |-> "none", it |-> st.it, flush_until |-> NoFlush,
               special_evs |-> <<>>, ignore_esc |-> FALSE,
               leftover |-> st.leftover]
         ELSE EscapeBacktrack(st, EscapeAttempt(w, ItWaypoint(st.it), st.it.pos))
    ELSE [exc |-> "none", it |-> st.it, flush_until |-> NoFlush,
          special_evs |-> <<>>, ignore_esc |-> st.ignore_esc,
          leftover |-> st.leftover]

\* the loop body starting an attempt at every ESC, ignore_esc or not
Dispatch_Reattempt(w, st, code) ==
    IF code = BEL
    THEN [exc |-> "none", it |-> st.it, flush_until |-> FlushAt(st.it.pos),
          special_evs |-> <<BellEvent>>, ignore_esc |-> st.ignore_esc,
          leftover |-> st.leftover]
    ELSE IF code = ESC
    THEN EscapeBacktrack(st, EscapeAttempt(w, ItWaypoint(st.it), st.it.pos))
    ELSE [exc |-> "none", it |-> st.it, flush_until |-> NoFlush,
          special_evs |-> <<>>, ignore_esc |-> st.ignore_esc,
          leftover |-> st.leftover]

\* the if/elif on code at the top of the loop body:
\* [exc, it, flush_until, special_evs, ignore_esc, leftover]
Dispatch(w, st, code) ==
    IF code = BEL
    THEN [exc |-> "none", it |-> st.it, flush_until |-> FlushAt(st.it.pos),
          special_evs |-> <<BellEvent>>, ignore_esc |-> st.ignore_esc,
          leftover |-> st.leftover]
    ELSE IF code = ESC
    THEN IF st.ignore_esc
         THEN [exc |-> "none", it |-> st.it, flush_until |-> NoFlush,
               special_evs |-> <<>>, ignore_esc |-> FALSE,
               leftover |-> st.leftover]
         ELSE EscapeBacktrack(st, EscapeAttempt(w, ItWaypoint(st.it), st.it.pos))
    ELSE [exc |-> "none", it |-> st.it, flush_until |-> NoFlush,
          special_evs |-> <<>>, ignore_esc |-> st.ignore_esc,
          leftover |-> st.leftover]

\* the special events yielded before the TEXT event
Yield_SpecialFirst(w, st, d, flush_until) ==
    [it |-> d.it,
     start |-> IF flush_until.set THEN d.it.pos + 1 ELSE st.start,
     ignore_esc |-> d.ignore_esc,
     leftover |-> d.leftover,
     out |-> st.out
             \o d.special_evs
             \o (IF flush_until.set /\ flush_until.at > st.start
                 THEN <<TextEvent(Slice(w, st.start, flush_until.at))>>
                 ELSE <<>>),
     exc |-> "none"]

\* a flush that leaves start where it was
Yield_KeepStart(w, st, d, flush_until) ==
    [it |-> d.it,
     start |-> st.start,
     ignore_esc |-> d.ignore_esc,
     leftover |-> d.leftover,
     out |-> st.out
             \o (IF flush_until.set /\ flush_until.at > st.start
                 THEN <<TextEvent(Slice(w, st.start, flush_until.at))>>
                 ELSE <<>>)
             \o d.special_evs,
     exc |-> "none"]

\* a TEXT event at every flush, pending text or not
Yield_EmptyText(w, st, d, flush_until) ==
    [it |-> d.it,
     start |-> IF flush_until.set THEN d.it.pos + 1 ELSE st.start,
     ignore_esc |-> d.ignore_esc,
     leftover |-> d.leftover,
     out |-> st.out
             \o (IF flush_until.set
                 THEN <<TextEvent(Slice(w, st.start, flush_until.at))>>
                 ELSE <<>>)
             \o d.special_evs,
     exc |-> "none"]

\* the TEXT event, the new start and the special events
Yield(w, st, d, flush_until) ==
    [it |-> d.it,
     start |-> IF flush_until.set THEN d.it.pos + 1 ELSE st.start,
     ignore_esc |-> d.ignore_esc,
     leftover |-> d.leftover,
     out |-> st.out
             \o (IF flush_until.set /\ flush_until.at > st.start
                 THEN <<TextEvent(Slice(w, st.start, flush_until.at))>>
                 ELSE <<>>)
             \o d.special_evs,
     exc |-> "none"]

\* a flush after every character
Flush_EveryChar(w, st, d) ==
    IF d.exc # "none"
    THEN [st EXCEPT !.exc = d.exc, !.it = d.it, !.leftover = d.leftover]
    ELSE Yield(w, st, d,
               IF ~d.flush_until.set
               THEN FlushAt(d.it.pos + 1)
               ELSE d.flush_until)

\* at the end of input, flush if we aren't already
Flush(w, st, d) ==
    IF d.exc # "none"
    THEN [st EXCEPT !.exc = d.exc, !.it = d.it, !.leftover = d.leftover]
    ELSE Yield(w, st, d,
               IF ~d.flush_until.set /\ ItEmpty(w, d.it)
               THEN FlushAt(d.it.pos + 1)
               ELSE d.flush_until)

\* one iteration of the for loop, code being the element just received
LoopBody(w, st, code) == Flush(w, st, Dispatch(w, st, code))

RECURSIVE ParseLoop(_, _)
ParseContinue(w, st) ==
    IF st.exc # "none" THEN st ELSE ParseLoop(w, st)

\* n is the outcome of the loop's __next__()
ParseStep(w, st, n) ==
    IF n.exc # "none" THEN st
    ELSE ParseContinue(w, LoopBody(w, [st EXCEPT !.it = n.it], n.val))

\* for code in it: ...
ParseLoop(w, st) == ParseStep(w, st, ItNext(w, st.it))

ParseResult(w, st) ==
    [events |-> st.out, leftover |-> st.leftover, exc |-> st.exc,
     wrapped |-> w]

\* the local variables of parse before the for loop, self.__leftover being
\* '' by then
LoopStart ==
    [it |-> NewIterator, start |-> 0, ignore_esc |-> FALSE,
     leftover |-> <<>>, out |-> <<>>, exc |-> "none"]

\* parse scanning its argument alone, the leftover forgotten
parse_ForgetLeftover(left, chunk) ==
    ParseResult(chunk,
                ParseLoop(chunk,
                          [it |-> NewIterator, start |-> 0,
                           ignore_esc |-> FALSE, leftover |-> <<>>,
                           out |-> <<>>, exc |-> "none"]))

\* parse scanning the leftover after its argument
parse_LeftoverLast(left, chunk) ==
    ParseResult(chunk \o left, ParseLoop(chunk \o left, LoopStart))

\* Parser.parse(input) with self.__leftover = left, its generator run to the
\* end: the events yielded, the new leftover and the exception that escaped
parse(left, chunk) ==
    ParseResult(left \o chunk,
                ParseLoop(left \o chunk,
                          [it |-> NewIterator, start |-> 0,
                           ignore_esc |-> FALSE, leftover |-> <<>>,
                           out |-> <<>>, exc |-> "none"]))

----------------------------------------------------------------------------
(* The streams of the two specifications *)

\* the strings over alphabet of length at most n
StringsOf(alphabet, n) == UNION {[1..k -> alphabet] : k \in 0..n}

Streams == StringsOf(Alphabet, MaxLen)

RECURSIVE Decimal(_)
\* the decimal digits of n >= 0
Decimal(n) ==
    IF n < 10 THEN <<Digit0 + n>>
    ELSE Append(Decimal(n \div 10), Digit0 + (n % 10))

\* the parameters an SGR sequence is built from: every code up to 110 in
\* decimal, the empty parameter, a non-integer one ("<") and "01"
SgrParamStrings ==
    {Decimal(n) : n \in 0..110} \cup {<<>>, <<60>>, <<48, 49>>}

\* the parameters of the sequences of more than one parameter
SgrMixStrings ==
    {Decimal(n) : n \in {0, 1, 5, 38, 41, 100}} \cup {<<>>, <<60>>}

RECURSIVE Join(_, _)
Join(ps, sep) ==
    IF Len(ps) = 0 THEN <<>>
    ELSE IF Len(ps) = 1 THEN ps[1]
    ELSE ps[1] \o <<sep>> \o Join(SubSeq(ps, 2, Len(ps)), sep)

\* the lists over S of length 1..n
ListsOf(S, n) == UNION {[1..k -> S] : k \in 1..n}

\* what follows a 38 or a 48: palette and truecolor groups, well-formed,
\* too short, too long, out of range and non-integer
ExtendedTails ==
    {<<Decimal(5), p>> :
        p \in {Decimal(0), Decimal(7), Decimal(196), Decimal(255),
               Decimal(256), Decimal(999), <<60>>, <<>>}}
    \cup {<<>>, <<Decimal(5)>>, <<Decimal(5), Decimal(1), Decimal(1)>>,
          <<Decimal(2), Decimal(1), Decimal(2), Decimal(3)>>,
          <<Decimal(2), Decimal(0), Decimal(1), Decimal(2), Decimal(3)>>,
          <<Decimal(2), Decimal(1), Decimal(2)>>,
          <<Decimal(2), Decimal(1), <<60>>, Decimal(3)>>,
          <<Decimal(2), Decimal(300), Decimal(2), Decimal(3)>>,
          <<Decimal(0)>>, <<Decimal(1)>>, <<Decimal(3), Decimal(1)>>,
          <<<<48, 53>>, Decimal(1)>>}

ExtendedLists ==
    {<<sel>> \o tail \o more :
        sel \in {Decimal(38), Decimal(48)}, tail \in ExtendedTails,
        more \in {<<>>, <<Decimal(1)>>}}

SgrParamLists ==
    {<<p>> : p \in SgrParamStrings} \cup ListsOf(SgrMixStrings, MaxParams)
    \cup ExtendedLists

\* ESC [ parameters m
SgrSequence(ps, sep) == <<ESC, LBRACKET>> \o Join(ps, sep) \o <<CharM>>

\* text, an SGR sequence, text
SgrStreams ==
    {pre \o SgrSequence(ps, sep) \o post :
        pre \in {<<>>, <<10>>}, post \in {<<>>, <<10>>},
        ps \in SgrParamLists, sep \in {Semicolon, Colon}}

\* text, ESC [ parameter bytes, intermediate bytes, one more character, text:
\* the character is a final byte ('@', 'J', '[', 'm', '~') or none ('\n',
\* DEL, BEL, ESC)
CsiStreams ==
    {pre \o <<ESC, LBRACKET>> \o params \o inters \o <<final>> \o post :
        pre \in {<<>>, <<10>>}, post \in {<<>>, <<10>>},
        params \in {<<>>, <<49>>, <<49, Semicolon, 51, 49>>, <<63, 50, 53>>},
        inters \in {<<>>, <<32>>, <<32, 33>>},
        final \in {64, 74, LBRACKET, CharM, 126, 10, 127, BEL, ESC}}

----------------------------------------------------------------------------
(* Terminal.handle_pty: the loop over the events of one parse call *)

NoTag == [some |-> FALSE, change |-> "", value |-> NoValue, rgba |-> NoRgba]

\* buf.create_tag(None, <attribute of change> = value)
CreateTag(change, value) ==
    [some |-> TRUE, change |-> change, value |-> value, rgba |-> NoRgba]

\* rgba = value.to_gdk(); buf.create_tag(None, <ground>_rgba = rgba)
CreateColorTag(change, value) ==
    [some |-> TRUE, change |-> change, value |-> value,
     rgba |-> to_gdk(value)]

\* the part of get_tag_for after the cache lookup: None (NoTag) where the
\* default style is right
NewTagFor(change, value) ==
    CASE change \in {"ITALIC", "STRIKETHROUGH", "CONCEALED"} ->
            [exc |-> "none",
             tag |-> IF value = Value("True") THEN CreateTag(change, value)
                     ELSE NoTag]
      [] change = "WEIGHT" ->
            [exc |-> "none",
             tag |-> IF value = Value("Weight.NORMAL") THEN NoTag
                     ELSE CreateTag(change, value)]
      [] change = "UNDERLINE" ->
            [exc |-> "none",
             tag |-> IF value = Value("Underline.NONE") THEN NoTag
                     ELSE CreateTag(change, value)]
      [] change \in {"FOREGROUND_COLOR", "BACKGROUND_COLOR"} ->
            [exc |-> "none",
             tag |-> IF value = NoValue THEN NoTag
                     ELSE CreateColorTag(change, value)]
      [] OTHER -> [exc |-> "AssertionError", tag |-> NoTag]

\* self.cached_text_tags[ev_data] = tag; return tag
CacheTag(cache, ev_data, new) ==
    [new |-> new,
     cache |-> IF new.exc # "none" THEN cache
               ELSE [d \in DOMAIN cache \cup {ev_data} |->
                        IF d = ev_data THEN new.tag ELSE cache[d]]]

\* get_tag_for(ev_data): a tag requested before comes from the cache
get_tag_for(cache, change, value) ==
    IF <<change, value>> \in DOMAIN cache
    THEN [new |-> [exc |-> "none", tag |-> cache[<<change, value>>]],
          cache |-> cache]
    ELSE CacheTag(cache, <<change, value>>, NewTagFor(change, value))

SetTag_Alone(tags, change, tag) == [c \in {change} |-> tag]

RemoveTag(tags, change) == [c \in DOMAIN tags \ {change} |-> tags[c]]

SetTag(tags, change, tag) ==
    [c \in DOMAIN tags \cup {change} |-> IF c = change THEN tag ELSE tags[c]]

\* self.active_text_tags = {}
ResetTags_KeepColors(tags) ==
    [c \in DOMAIN tags \cap {"FOREGROUND_COLOR", "BACKGROUND_COLOR"} |->
        tags[c]]

ResetTags(tags) == [c \in {} |-> NoTag]

\* if new_tag is None: del active_text_tags[change] (if present)
\* else: active_text_tags[change] = new_tag
ApplyTag(st, change, g) ==
    IF g.new.exc # "none" THEN [st EXCEPT !.exc = g.new.exc]
    ELSE [st EXCEPT !.cache = g.cache,
                    !.tags = IF g.new.tag.some
                             THEN SetTag(st.tags, change, g.new.tag)
                             ELSE RemoveTag(st.tags, change)]

\* the body of the for loop for the event e
HandleEvent(st, e) ==
    CASE e.type = "TEXT" ->
            [st EXCEPT !.shown = Append(st.shown,
                                        [text |-> e.text, tags |-> st.tags])]
      [] e.type = "BELL" -> [st EXCEPT !.urgent = TRUE]
      [] e.type = "TEXT_STYLE" ->
            IF e.change = "RESET"
            THEN [st EXCEPT !.tags = ResetTags(st.tags)]
            ELSE ApplyTag(st, e.change,
                          get_tag_for(st.cache, e.change, e.value))
      [] OTHER -> [st EXCEPT !.exc = "AssertionError"]

RECURSIVE HandleLoop(_, _, _)
\* for (ev, data) in self.pty_parser.parse(decoded): ...
HandleLoop(evs, i, st) ==
    IF i > Len(evs) \/ st.exc # "none" THEN st
    ELSE HandleLoop(evs, i + 1, HandleEvent(st, evs[i]))

\* the terminal after the loop
Display(st) ==
    /\ active_text_tags' = st.tags
    /\ cached_text_tags' = st.cache
    /\ shown' = st.shown
    /\ urgent' = st.urgent

InitTerminal ==
    /\ active_text_tags = [c \in {} |-> NoTag]
    /\ cached_text_tags = [d \in {} |-> NoTag]
    /\ shown = <<>>
    /\ urgent = FALSE

----------------------------------------------------------------------------
(* The objects the terminal is not using stay as constructed *)

\* no element and no index
NoMark == [set |-> FALSE, elem |-> -1, index |-> -1]

\* the record of a call: its arguments n and f, the exception it raised,
\* the slice or the element or the truth value it returned, pos before it,
\* what the backtrack() right before it restored, and whether the call
\* before it was a next() that raised StopIteration
Call(op, n, f, exc, val, flag, pos0, restored, prev) ==
    [op |-> op, n |-> n, f |-> f, exc |-> exc, val |-> val, flag |-> flag,
     pos0 |-> pos0, restored |-> restored,
     afterStop |-> prev.op = "next" /\ prev.exc = "StopIteration"]

\* the iterator as constructed on s
NewIteratorOn(s) ==
    /\ wrapped = s
    /\ iter = NewIterator
    /\ ret = Call("__init__", 0, "", "none", <<>>, FALSE, -1, NoMark,
                  [op |-> "", exc |-> "none"])
    /\ marks = <<>>
    /\ got = [pure |-> TRUE, elems |-> <<>>]

NoIterator == NewIteratorOn(<<>>)

NoColor == color = NoValue /\ rgba = NoRgba

\* None
NoEntry == [some |-> FALSE, entry |-> <<>>]

\* no call of get_entry whose result is still current; line and was are
\* the argument of the add_entry call made last, if it was the last call on
\* the history, and the number of rows before it
NotFound ==
    [called |-> FALSE, offset |-> 0, res |-> NoEntry, line |-> <<>>,
     was |-> 0]

NoHistory == hist = <<>> /\ exe = "" /\ found = NotFound

\* self.reset_history_index() in Terminal.__init__, and an empty input line
\* no history-entry request, or something else came after it
NotAsked == [idx |-> 0, index |-> -1, line |-> <<>>]

NoNavigation == hist_index = -1 /\ cmdline = <<>> /\ asked = NotAsked

\* parse called on w, its for loop not entered yet
ScanOf(w) == [w |-> w, st |-> LoopStart, running |-> TRUE, trace |-> <<>>]

NoScan == scan = [ScanOf(<<>>) EXCEPT !.running = FALSE]

NoGenerators == gens = <<>>

AtRest == NoNavigation /\ NoScan /\ NoGenerators

InitOthers == NoIterator /\ NoColor /\ NoHistory /\ AtRest

----------------------------------------------------------------------------
(* The state machine: the pty callback hands the stream to parse chunk by  *)
(* chunk and consumes every event before the next call                     *)

InitParser ==
    /\ fed = 0
    /\ leftover = <<>>
    /\ events = <<>>
    /\ lastLeft = <<>>
    /\ lastChunk = <<>>
    /\ lastBuf = <<>>
    /\ lastEvents = <<>>
    /\ lastExc = "none"

Init == input \in Streams /\ InitParser /\ InitTerminal /\ InitOthers

InitSgr ==
    /\ input \in SgrStreams \cup CsiStreams
    /\ InitParser /\ InitTerminal /\ InitOthers

\* the parser and the consumer after the call returned r
Consume(r) ==
    /\ leftover' = r.leftover
    /\ events' = events \o r.events
    /\ lastBuf' = r.wrapped
    /\ lastEvents' = r.events
    /\ lastExc' = r.exc
    /\ Display(HandleLoop(r.events, 1,
                           [tags |-> active_text_tags,
                            cache |-> cached_text_tags,
                            shown |-> shown, urgent |-> urgent,
                            exc |-> "none"]))

\* one parse call on the next n characters of the stream (the decoder may
\* hand over an empty chunk; with no leftover that call does nothing)
Feed(n) ==
    /\ lastExc = "none"
    /\ fed + n <= Len(input)
    /\ n > 0 \/ leftover # <<>>
    /\ Consume(parse(leftover, SubSeq(input, fed + 1, fed + n)))
    /\ lastLeft' = leftover
    /\ lastChunk' = SubSeq(input, fed + 1, fed + n)
    /\ fed' = fed + n
    /\ UNCHANGED <<input, iterVars, colorVars, histVars, restVars>>

\* the stream arrives in chunks cut anywhere
Next == \E n \in 0..MaxLen : Feed(n)

\* the whole stream in one call
FeedAll == fed = 0 /\ Feed(Len(input))

\* the stream in two chunks, cut anywhere
FeedFirst == fed = 0 /\ \E n \in 1..(Len(input) - 1) : Feed(n)

FeedRest == fed > 0 /\ fed < Len(input) /\ Feed(Len(input) - fed)

NextSgr == FeedAll \/ FeedFirst \/ FeedRest

Spec == Init /\ [][Next]_vars

SpecSgr == InitSgr /\ [][NextSgr]_vars

----------------------------------------------------------------------------
(* SGR sequences parsed in one or two calls, parameter by parameter *)

\* every parameter of SgrParamStrings before and after a '1'
PairLists ==
    {<<p, Decimal(1)>> : p \in SgrParamStrings}
    \cup {<<Decimal(1), p>> : p \in SgrParamStrings}

\* three parameters, each '', '0' or '1': leading, doubled and trailing
\* separators
TripleLists == [1..3 -> {<<>>, Decimal(0), Decimal(1)}]

\* 38 or 48, 5 and every index up to MaxIndex
PaletteLists ==
    {<<sel, Decimal(5), Decimal(p)>> :
        sel \in {Decimal(38), Decimal(48)}, p \in 0..MaxIndex}

\* color channels at and around the ends of 0..255
ChannelProbes == {Decimal(0), Decimal(7), Decimal(255), Decimal(256)}

\* 38 or 48, 2 and three channels, or a colorspace id and three channels
TrueColorLists ==
    {<<sel, Decimal(2)>> \o cs \o <<r, g, b>> :
        sel \in {Decimal(38), Decimal(48)},
        cs \in {<<>>, <<<<>>>>, <<Decimal(0)>>, <<Decimal(9)>>},
        r \in ChannelProbes, g \in ChannelProbes, b \in ChannelProbes}

\* parameter strings with both separators
MixedParams ==
    {Decimal(1) \o <<Semicolon>> \o Decimal(4) \o <<Colon>> \o Decimal(3),
     Decimal(1) \o <<Colon>> \o Decimal(4) \o <<Semicolon>> \o Decimal(3),
     Decimal(38) \o <<Semicolon>> \o Decimal(5) \o <<Colon>> \o Decimal(196),
     Decimal(48) \o <<Colon>> \o Decimal(5) \o <<Semicolon>> \o Decimal(7),
     Decimal(5) \o <<Semicolon>> \o Decimal(1) \o <<Colon>> \o Decimal(1)}

ParamStreams ==
    {SgrSequence(ps, sep) :
        ps \in {<<p>> : p \in SgrParamStrings} \cup PairLists
               \cup TripleLists \cup ExtendedLists \cup PaletteLists
               \cup TrueColorLists,
        sep \in {Semicolon, Colon}}
    \cup {<<ESC, LBRACKET>> \o params \o <<CharM>> : params \in MixedParams}

InitParams ==
    input \in ParamStreams /\ InitParser /\ InitTerminal /\ InitOthers

\* the first call is handed the first half of the stream
FeedHalf == fed = 0 /\ Feed(Len(input) \div 2)

NextParams == FeedAll \/ FeedHalf \/ FeedRest

SpecParams == InitParams /\ [][NextParams]_vars

----------------------------------------------------------------------------
(* The style specification: text in changing styles, handed to the       *)
(* terminal in one chunk or in two                                         *)

\* reset, for each of the seven axes a code that sets it (two for the
\* weight), and for the weight, the slant and the two colors the code that
\* puts the axis back to its default
StyleCodes == {0, 1, 2, 22, 3, 23, 4, 8, 9, 31, 39, 41, 49}

RECURSIVE StyledText(_)
\* for each code an SGR sequence and a character of text
StyledText(codes) ==
    IF Len(codes) = 0 THEN <<>>
    ELSE SgrSequence(<<Decimal(codes[1])>>, Semicolon) \o <<CharM>>
         \o StyledText(SubSeq(codes, 2, Len(codes)))

StyleStreams ==
    {<<CharM>> \o StyledText(codes) : codes \in ListsOf(StyleCodes, MaxChanges)}

InitStyle ==
    input \in StyleStreams /\ InitParser /\ InitTerminal /\ InitOthers

SpecStyle == InitStyle /\ [][NextParams]_vars

----------------------------------------------------------------------------
(* The color specification: a Color is constructed and converted           *)

\* the colors Color.__init__ accepts: the basic colors, regular and
\* bright, the palette, and truecolors of three probes per channel
Colors ==
    {Color(t, <<BasicColor(n).val>>).val :
        t \in {"NUMBERED_8", "NUMBERED_8_BRIGHT"}, n \in 0..7}
    \cup {Color("NUMBERED_256", <<n>>).val : n \in 0..255}
    \cup {Color("TRUECOLOR", <<r, g, b>>).val :
            r \in {0, 7, 255}, g \in {0, 7, 255}, b \in {0, 7, 255}}

InitColor ==
    /\ NoColor
    /\ input = <<>> /\ InitParser /\ InitTerminal /\ NoIterator /\ NoHistory
    /\ AtRest

ColorOnly ==
    UNCHANGED <<parserVars, styleVars, iterVars, histVars, restVars>>

\* Color(t, data)
NewColor(c) ==
    /\ color = NoValue
    /\ color' = c
    /\ UNCHANGED rgba
    /\ ColorOnly

\* rgba = value.to_gdk()
ToGdk ==
    /\ color # NoValue
    /\ rgba = NoRgba
    /\ rgba' = to_gdk(color)
    /\ UNCHANGED color
    /\ ColorOnly

NextColor == (\E c \in Colors : NewColor(c)) \/ ToGdk

SpecColor == InitColor /\ [][NextColor]_vars

----------------------------------------------------------------------------
(* History (saneterm/history.py): the table is the sequence of its rows    *)
(* in rowid order, the order in which sqlite scans it                      *)

RECURSIVE rstrip(_)
\* entry.rstrip('\n')
rstrip(s) ==
    IF Len(s) > 0 /\ s[Len(s)] = 10 THEN rstrip(SubSeq(s, 1, Len(s) - 1))
    ELSE s

\* a DELETE of the rows of greatest rowid
DeleteOldest_Newest(table, max) ==
    IF Len(table) > max THEN SubSeq(table, 1, max) ELSE table

\* DELETE ... rowid IN (the count(*) - :max rows of least rowid), if
\* count(*) > :max
DeleteOldest(table, max) ==
    IF Len(table) > max THEN SubSeq(table, Len(table) - max + 1, Len(table))
    ELSE table

\* the table after add_entry(fd, entry), entry being stripped already
Inserted(table, e, entry) ==
    IF Len(entry) = 0 THEN table
    ELSE DeleteOldest(Append(table, [exe |-> e, entry |-> entry]), HistSize)

add_entry(table, e, entry) == Inserted(table, e, rstrip(entry))

\* SELECT entry ... WHERE exe=:exe
RowsOf(table, e) ==
    LET OfExe(row) == row.exe = e
    IN SelectSeq(table, OfExe)

\* ... AND count >= :offset LIMIT 1 OFFSET (count - :offset), rows being
\* the rows of the executable; fetchone()
Fetch(rows, offset) ==
    IF Len(rows) >= offset /\ Len(rows) - offset < Len(rows)
    THEN [some |-> TRUE, entry |-> rows[Len(rows) - offset + 1].entry]
    ELSE NoEntry

get_entry(table, e, offset) == Fetch(RowsOf(table, e), offset)

\* the programs of the foreground process group
Executables == {"/bin/sh", "/bin/ed"}

\* the lines the user enters: empty ones and ones with text
Lines == {<<10>>, <<97, 10>>, <<98, 10>>, <<98, 10, 10>>}

InitHistory ==
    /\ hist = <<>>
    /\ exe \in Executables
    /\ found = NotFound
    /\ input = <<>> /\ InitParser /\ InitTerminal /\ NoIterator /\ NoColor
    /\ AtRest

HistoryOnly ==
    UNCHANGED <<parserVars, styleVars, iterVars, colorVars, restVars>>

\* another program becomes the foreground process of the pty
Foreground(e) ==
    /\ e # exe
    /\ exe' = e
    /\ found' = NotFound
    /\ UNCHANGED hist
    /\ HistoryOnly

AddEntry(line) ==
    /\ hist' = add_entry(hist, exe, line)
    /\ found' = [NotFound EXCEPT !.line = line, !.was = Len(hist)]
    /\ UNCHANGED exe
    /\ HistoryOnly

GetEntry(offset) ==
    /\ found' = [NotFound EXCEPT !.called = TRUE, !.offset = offset,
                                 !.res = get_entry(hist, exe, offset)]
    /\ UNCHANGED <<hist, exe>>
    /\ HistoryOnly

NextHistory ==
    \/ \E e \in Executables : Foreground(e)
    \/ \E line \in Lines : AddEntry(line)
    \/ \E offset \in -1..(HistSize + 1) : GetEntry(offset)

SpecHistory == InitHistory /\ [][NextHistory]_vars

----------------------------------------------------------------------------
(* Terminal.history and Terminal.user_input *)

InitNavigate ==
    /\ hist = <<>>
    /\ exe \in Executables
    /\ found = NotFound
    /\ input = <<>> /\ InitParser /\ InitTerminal /\ NoIterator /\ NoColor
    /\ NoNavigation /\ NoScan /\ NoGenerators

NavigateOnly ==
    UNCHANGED <<parserVars, styleVars, iterVars, colorVars, callVars, exe,
                found>>

\* the user types c at the end of the input line
Type(c) ==
    /\ Len(cmdline) < MaxTyped
    /\ cmdline' = Append(cmdline, c)
    /\ asked' = NotAsked
    /\ UNCHANGED <<hist, hist_index>>
    /\ NavigateOnly

\* user_input: the line goes to the history and the index is reset
UserInput(line) ==
    /\ hist' = add_entry(hist, exe, line)
    /\ hist_index' = -1
    /\ asked' = NotAsked
    /\ UNCHANGED cmdline
    /\ NavigateOnly

\* the end of history once self.hist_index += idx is done and get_entry
\* has returned entry: [hist_index, cmdline]
Navigated(backup_index, index, idx, entry, line) ==
    IF ~entry.some
    THEN IF idx > 0
         THEN [hist_index |-> backup_index, cmdline |-> line]
         ELSE [hist_index |-> -1, cmdline |-> <<>>]
    ELSE [hist_index |-> index, cmdline |-> entry.entry]

history(table, e, index, idx, line) ==
    Navigated(index, index + idx, idx, get_entry(table, e, index + idx), line)

\* the history-entry signal: Up is idx = 1, Down is idx = -1
History(idx) ==
    /\ hist_index' = history(hist, exe, hist_index, idx, cmdline).hist_index
    /\ cmdline' = history(hist, exe, hist_index, idx, cmdline).cmdline
    /\ asked' = [idx |-> idx, index |-> hist_index, line |-> cmdline]
    /\ UNCHANGED hist
    /\ NavigateOnly

NextNavigate ==
    \/ \E c \in {97, 98} : Type(c)
    \/ \E line \in Lines : UserInput(line)
    \/ \E idx \in {1, -1} : History(idx)

SpecNavigate == InitNavigate /\ [][NextNavigate]_vars

----------------------------------------------------------------------------
(* The iterator specification: the calls a parser can make on one          *)
(* PositionedIterator, in any order                                        *)

\* '1' and ';': both are parameter bytes, neither is an intermediate byte,
\* and '1' alone passes the test of the parameter splitter
WrappedStrings == StringsOf({49, Semicolon}, MaxWrapped)

InitIterator ==
    /\ \E s \in WrappedStrings : NewIteratorOn(s)
    /\ input = <<>> /\ InitParser /\ InitTerminal /\ NoColor /\ NoHistory
    /\ AtRest

\* what stays as it is when the iterator is called
IteratorOnly ==
    UNCHANGED <<wrapped, parserVars, styleVars, colorVars, histVars,
                restVars>>

\* got is the elements received as long as next() is all that was called
Received(r) ==
    got' = IF got.pure /\ r.exc = "none"
           THEN [got EXCEPT !.elems = Append(got.elems, r.val)]
           ELSE got

NotReceived == got' = [pure |-> FALSE, elems |-> <<>>]

\* what the call before this one restored, if it was a backtrack()
Restored ==
    IF ret.op = "backtrack" /\ ret.exc = "none" THEN ret.restored ELSE NoMark

\* r is the outcome of __next__()
NextReturns(r) ==
    /\ iter' = r.it
    /\ ret' = Call("next", 0, "", r.exc,
                   IF r.exc = "none" THEN <<r.val>> ELSE <<>>, FALSE,
                   iter.pos, Restored, ret)
    /\ Received(r)
    /\ UNCHANGED marks

CallNext == NextReturns(ItNext(wrapped, iter)) /\ IteratorOnly

\* r is the outcome of take(n) or of takewhile_greedy(f)
SliceReturns(op, n, f, r) ==
    /\ iter' = r.it
    /\ ret' = Call(op, n, f, r.exc, r.val, FALSE, iter.pos, NoMark, ret)
    /\ NotReceived
    /\ UNCHANGED marks

CallTake(n) ==
    SliceReturns("take", n, "", take(wrapped, iter, n)) /\ IteratorOnly

CallTakewhile(f) ==
    /\ SliceReturns("takewhile_greedy", 0, f,
                    takewhile_greedy(wrapped, iter, f))
    /\ IteratorOnly

CallEmpty ==
    /\ ret' = Call("empty", 0, "", "none", <<>>, ItEmpty(wrapped, iter),
                   iter.pos, NoMark, ret)
    /\ NotReceived
    /\ UNCHANGED <<iter, marks>>
    /\ IteratorOnly

\* the element and the index a waypoint() right after a next() is about
MarkHere ==
    IF ret.op = "next" /\ ret.exc = "none"
    THEN [set |-> TRUE, elem |-> ret.val[1], index |-> iter.pos]
    ELSE NoMark

CallWaypoint ==
    /\ Len(iter.waypoints) < MaxWaypoints
    /\ iter' = ItWaypoint(iter)
    /\ marks' = Append(marks, MarkHere)
    /\ ret' = Call("waypoint", 0, "", "none", <<>>, FALSE, iter.pos, NoMark,
                   ret)
    /\ NotReceived
    /\ IteratorOnly

\* r is the outcome of backtrack()
BacktrackReturns(r) ==
    /\ iter' = r.it
    /\ marks' = IF r.exc = "none" THEN SubSeq(marks, 1, Len(marks) - 1)
                ELSE marks
    /\ ret' = Call("backtrack", 0, "", r.exc, <<>>, FALSE, iter.pos,
                   IF r.exc = "none" THEN marks[Len(marks)] ELSE NoMark, ret)
    /\ NotReceived

CallBacktrack == BacktrackReturns(ItBacktrack(iter)) /\ IteratorOnly

NextIterator ==
    \/ CallNext
    \/ \E n \in 0..MaxTake : CallTake(n)
    \/ \E f \in {"param", "inter", "notsemi"} : CallTakewhile(f)
    \/ CallEmpty
    \/ CallWaypoint
    \/ CallBacktrack

SpecIterator == InitIterator /\ [][NextIterator]_vars

----------------------------------------------------------------------------
(* The for loop of Parser.parse, one iteration at a time *)

ScanStrings == StringsOf({ESC, LBRACKET, CharM, 49, BEL}, MaxScan)

InitScan ==
    /\ input = <<>> /\ InitParser /\ InitTerminal
    /\ NoIterator /\ NoColor /\ NoHistory /\ NoNavigation /\ NoGenerators
    /\ scan \in {ScanOf(w) : w \in ScanStrings}

\* what an iteration that received code leaves: st holds the locals once
\* __next__() has returned, after the locals at the end of the loop body
Scanned(sc, st, code, after) ==
    [sc EXCEPT
        !.st = after,
        !.running = after.exc = "none",
        !.trace = Append(@, [pos |-> st.it.pos, code |-> code,
                             ignored |-> st.ignore_esc,
                             depth |-> Len(st.it.waypoints),
                             after |-> after.it.pos,
                             wps |-> Len(after.it.waypoints),
                             flag |-> after.ignore_esc,
                             start |-> after.start,
                             saved |-> after.leftover # <<>>])]

ScanBody(sc, st, code) == Scanned(sc, st, code, LoopBody(sc.w, st, code))

\* for code in it: n is the outcome of __next__(), StopIteration ends the loop
Iterated(sc, n) ==
    IF n.exc # "none"
    THEN [sc EXCEPT !.running = FALSE]
    ELSE ScanBody(sc, [sc.st EXCEPT !.it = n.it], n.val)

Iterate ==
    /\ scan.running
    /\ Len(scan.trace) < MaxIterations
    /\ scan' = Iterated(scan, ItNext(scan.w, scan.st.it))
    /\ UNCHANGED <<parserVars, styleVars, iterVars, colorVars, histVars,
                   navVars, gens>>

NextScan == Iterate

SpecScan == InitScan /\ [][NextScan]_vars

\* ENABLED <<Iterate>>_vars: Iterated is defined on every scan, and it
\* either adds to the trace or stops the loop
CanIterate == scan.running /\ Len(scan.trace) < MaxIterations

\* WF_vars(Iterate) with its ENABLED written out: the consumer of the
\* generator drains it, so the loop is never suspended for good
IterateFair == []<>(~CanIterate) \/ []<><<Iterate>>_vars

SpecScanFair == SpecScan /\ IterateFair

----------------------------------------------------------------------------
(* Parser.parse as a generator: the body runs when the consumer asks for the
   next event, from the call or the last yield up to the next yield *)

GenStreams == StringsOf({BEL, ESC, LBRACKET, CharM}, MaxStream)

\* what a generator finds of the one created before it when it starts
NoPrev == [phase |-> "none", scanned |-> FALSE]

\* the generator object parse(chunk) returns: nothing of the body has run
NewGen(chunk) ==
    [chunk |-> chunk, phase |-> "created", w |-> <<>>, st |-> LoopStart,
     pending |-> <<>>, seen |-> <<>>, prev |-> NoPrev]

PrevOf(gs, i) ==
    IF i = 1 THEN NoPrev
    ELSE [phase |-> gs[i - 1].phase,
          scanned |-> /\ gs[i - 1].phase # "created"
                      /\ ItEmpty(gs[i - 1].w, gs[i - 1].st.it)]

\* it = PositionedIterator(self.__leftover + input); self.__leftover = ''
Started(g, left, prev) ==
    [g EXCEPT !.phase = "running", !.w = left \o g.chunk, !.seen = left,
              !.prev = prev]

\* the generator at a yield or at its end: left is self.__leftover by then,
\* yielded the event handed to the consumer, if any
Suspended(g, st, phase, pending, left, yielded) ==
    [gen |-> [g EXCEPT !.st = st, !.phase = phase, !.pending = pending],
     leftover |-> left, yielded |-> yielded]

RECURSIVE RunLoop(_, _, _)
\* the yields of an iteration: the first suspends the generator, the others
\* wait for the next requests; an iteration with none goes on to the next
RunYield(g, st, left) ==
    IF st.exc # "none" THEN Suspended(g, st, "done", <<>>, left, <<>>)
    ELSE IF st.out = <<>> THEN RunLoop(g, st, left)
    ELSE Suspended(g, [st EXCEPT !.out = <<>>], "running", Tail(st.out),
                   left, <<Head(st.out)>>)

\* an iteration that never writes self.__leftover
RunBody_NoSave(g, left, st) == RunYield(g, st, left)

\* self.__leftover = it.wrapped[flush_until:] is done within the iteration,
\* before its yields
RunBody(g, left, st) ==
    RunYield(g, st, IF st.leftover # <<>> THEN st.leftover ELSE left)

\* n is the outcome of the loop's __next__()
RunStep(g, st, left, n) ==
    IF n.exc # "none" THEN Suspended(g, st, "done", <<>>, left, <<>>)
    ELSE RunBody(g, left,
                 LoopBody(g.w, [st EXCEPT !.it = n.it, !.out = <<>>,
                                          !.leftover = <<>>], n.val))

RunLoop(g, st, left) == RunStep(g, st, left, ItNext(g.w, st.it))

\* next() on a generator that has started
Resumed(g, left) ==
    IF g.pending # <<>>
    THEN Suspended(g, g.st, "running", Tail(g.pending), left,
                   <<Head(g.pending)>>)
    ELSE RunLoop(g, g.st, left)

InitGen ==
    /\ input \in GenStreams /\ InitParser /\ InitTerminal
    /\ NoIterator /\ NoColor /\ NoHistory /\ NoNavigation /\ NoScan
    /\ NoGenerators

GenOnly ==
    UNCHANGED <<input, lastLeft, lastChunk, lastBuf, lastEvents, lastExc,
                styleVars, iterVars, colorVars, histVars, navVars, scan>>

\* parser.parse(chunk) on the next n characters: call k and call k + 1
GenCall(n) ==
    /\ Len(gens) < 2
    /\ fed + n <= Len(input)
    /\ gens' = Append(gens, NewGen(SubSeq(input, fed + 1, fed + n)))
    /\ fed' = fed + n
    /\ UNCHANGED <<leftover, events>>
    /\ GenOnly

\* the consumer has the event r.yielded, if any
Delivered(i, r) ==
    /\ gens' = [gens EXCEPT ![i] = r.gen]
    /\ leftover' = r.leftover
    /\ events' = events \o r.yielded

\* the consumer asks generator i for its next event
GenNext(i) ==
    /\ gens[i].phase # "done"
    /\ IF gens[i].phase = "created"
       THEN Delivered(i, Resumed(Started(gens[i], leftover, PrevOf(gens, i)),
                                 <<>>))
       ELSE Delivered(i, Resumed(gens[i], leftover))
    /\ UNCHANGED fed
    /\ GenOnly

NextGen ==
    \/ \E n \in 0..MaxStream : GenCall(n)
    \/ \E i \in 1..Len(gens) : GenNext(i)

SpecGen == InitGen /\ [][NextGen]_vars

----------------------------------------------------------------------------
(* The stream grammar, stated on the characters, without the iterator *)

\* the characters handed to parse so far
Consumed == SubSeq(input, 1, fed)

\* the least k >= from with w[k] outside the class f; Len(w) + 1 if none
FirstNot(w, from, f) ==
    IF \E k \in from..Len(w) : ~Pred(f, w[k])
    THEN CHOOSE k \in from..Len(w) :
            ~Pred(f, w[k]) /\ \A j \in from..(k - 1) : Pred(f, w[j])
    ELSE Len(w) + 1

\* what the ESC at w[i] starts: a well-formed CSI sequence ending at end
\* ("csi"), an attempt the end of w cuts short ("pending"), or neither
EscapeAt(w, i) ==
    IF i = Len(w)
    THEN [kind |-> "pending", end |-> Len(w), params |-> <<>>, final |-> 0]
    ELSE IF w[i + 1] # LBRACKET
    THEN [kind |-> "failed", end |-> i, params |-> <<>>, final |-> 0]
    ELSE LET p == FirstNot(w, i + 2, "param")
             q == FirstNot(w, p, "inter")
         IN  IF q > Len(w)
             THEN [kind |-> "pending", end |-> Len(w), params |-> <<>>,
                   final |-> 0]
             ELSE IF csi_final_byte(w[q])
             THEN [kind |-> "csi", end |-> q,
                   params |-> SubSeq(w, i + 2, p - 1), final |-> w[q]]
             ELSE [kind |-> "failed", end |-> i, params |-> <<>>, final |-> 0]

Escapes(w, kind) ==
    {i \in 1..Len(w) : w[i] = ESC /\ EscapeAt(w, i).kind = kind}

CharAtoms(s) == [i \in 1..Len(s) |-> TextEvent(<<s[i]>>)]

RECURSIVE RefAtoms(_, _)
\* what the stream w means from index i on, character by character: a
\* Bell per BEL, the style changes of each well-formed SGR sequence,
\* nothing for any other well-formed CSI sequence, and every other
\* character as text (a pending attempt included)
RefAtoms(w, i) ==
    IF i > Len(w) THEN <<>>
    ELSE IF w[i] = BEL THEN <<BellEvent>> \o RefAtoms(w, i + 1)
    ELSE IF w[i] = ESC
    THEN LET a == EscapeAt(w, i)
         IN  CASE a.kind = "csi" ->
                    (IF a.final = CharM
                     THEN parse_sgr_sequence(a.params, <<>>).evs
                     ELSE <<>>) \o RefAtoms(w, a.end + 1)
               [] a.kind = "pending" -> CharAtoms(SubSeq(w, i, Len(w)))
               [] OTHER -> <<TextEvent(<<ESC>>)>> \o RefAtoms(w, i + 1)
    ELSE <<TextEvent(<<w[i]>>)>> \o RefAtoms(w, i + 1)

RECURSIVE Atoms(_)
\* the events with every Text cut into its characters
Atoms(evs) ==
    IF Len(evs) = 0 THEN <<>>
    ELSE (IF evs[1].type = "TEXT" THEN CharAtoms(evs[1].text) ELSE <<evs[1]>>)
         \o Atoms(Tail(evs))

RECURSIVE TextOf(_)
\* the Text payloads, concatenated
TextOf(evs) ==
    IF Len(evs) = 0 THEN <<>> ELSE evs[1].text \o TextOf(Tail(evs))

RECURSIVE MergeText(_)
\* the events with adjacent Text events made one
MergeText(evs) ==
    IF Len(evs) <= 1 THEN evs
    ELSE LET rest == MergeText(Tail(evs))
         IN  IF evs[1].type = "TEXT" /\ rest[1].type = "TEXT"
             THEN <<TextEvent(evs[1].text \o rest[1].text)>> \o Tail(rest)
             ELSE <<evs[1]>> \o rest

IsText(e) == e.type = "TEXT"

IsBell(e) == e.type = "BELL"

IsStyle(e) == e.type = "TEXT_STYLE"

NotStyle(e) == e.type # "TEXT_STYLE"

Occurrences(c, s) == Cardinality({i \in 1..Len(s) : s[i] = c})

TextEvents == {events[i] : i \in {j \in 1..Len(events) : IsText(events[j])}}

\* for each Bell of evs, in order, the type of the event before it
BellPrev(evs) ==
    LET bells == {i \in 1..Len(evs) : IsBell(evs[i])}
        nth(k) == CHOOSE i \in bells :
                     Cardinality({j \in bells : j < i}) = k - 1
    IN  [k \in 1..Cardinality(bells) |->
            IF nth(k) = 1 THEN "START" ELSE evs[nth(k) - 1].type]

\* the ESC of the attempt the end of w cuts short; 0 if there is none
PendingStart(w) ==
    IF Escapes(w, "pending") = {} THEN 0
    ELSE CHOOSE i \in Escapes(w, "pending") : TRUE

\* a complete CSI sequence with no function: ESC [ @
NoOpCsi == <<ESC, LBRACKET, 64>>

----------------------------------------------------------------------------
(* Claims *)

\* C1 (as stated): when the whole stream has been parsed chunk by chunk,
\* the events of the calls, concatenated, are exactly the events of one
\* parse call on the whole stream.
C1_ChunkedEqualsWhole ==
    fed = Len(input) => events = parse(<<>>, input).events

\* C1 (amended): the events of the chunked calls and the events of one
\* call on the same characters are the same event sequence once adjacent
\* Text events are merged: chunking only cuts Text events.
C1_ChunkedEqualsWholeMerged ==
    MergeText(events) = MergeText(parse(<<>>, Consumed).events)

\* a CSI sequence cut by a chunk boundary has been completed by a later
\* call and produced its style change, with text in the stream
C1_Witness ==
    /\ fed = Len(input)
    /\ lastLeft # <<>>
    /\ \E i \in 1..Len(lastEvents) : IsStyle(lastEvents[i])
    /\ TextEvents # {}

\* C2 (as stated): no Text payload ever contains a BEL or an ESC.
C2_NoBelNoEscInText ==
    \A e \in TextEvents : \A i \in 1..Len(e.text) : e.text[i] \notin {BEL, ESC}

\* C2 (amended): no Text payload contains a BEL; an ESC occurs in a Text
\* payload only as its first character, and what follows it there is not
\* a well-formed CSI sequence (the escape attempt failed).
C2_NoBelEscOnlyFailed ==
    \A e \in TextEvents :
        /\ \A i \in 1..Len(e.text) : e.text[i] # BEL
        /\ \A i \in 2..Len(e.text) : e.text[i] # ESC
        /\ (Len(e.text) > 0 /\ e.text[1] = ESC) =>
               EscapeAt(e.text, 1).kind # "csi"

\* the stream held a BEL and a failed escape attempt, whose ESC is in a Text
C2_Witness ==
    /\ \E i \in 1..Len(events) : IsBell(events[i])
    /\ \E e \in TextEvents : Len(e.text) > 1 /\ e.text[1] = ESC

\* C3: the Text payloads, followed by the leftover, are the consumed
\* stream without its BELs and without the characters of its well-formed
\* CSI sequences, whatever their final byte and wherever the chunks are
\* cut.
C3_CsiNeverInText ==
    TextOf(events) \o leftover = TextOf(SelectSeq(RefAtoms(Consumed, 1), IsText))

\* a well-formed CSI sequence with a final byte other than 'm', cut by a
\* chunk boundary, between text
C3_Witness ==
    /\ fed = Len(input)
    /\ lastLeft # <<>>
    /\ \E i \in Escapes(input, "csi") : EscapeAt(input, i).final # CharM
    /\ TextOf(events) # <<>>

\* C4 (as stated): the ESC of a failed escape attempt appears in no Text
\* payload, and no StyleChange is emitted for the attempt.
C4_FailedEscapeDropped ==
    Escapes(Consumed, "failed") # {} =>
        /\ Occurrences(ESC, TextOf(events)) = 0
        /\ (Escapes(Consumed, "csi") = {} =>
               \A i \in 1..Len(events) : ~IsStyle(events[i]))

\* C4 (amended): a failed escape attempt emits no StyleChange and drops
\* nothing: each failed ESC is in a Text payload (as its first character)
\* and the characters after it are parsed again as ordinary input.
C4_FailedEscapeIsText ==
    /\ Occurrences(ESC, TextOf(events)) = Cardinality(Escapes(Consumed, "failed"))
    /\ \A e \in TextEvents : \A i \in 2..Len(e.text) : e.text[i] # ESC
    /\ Escapes(Consumed, "csi") = {} =>
           \A i \in 1..Len(events) : ~IsStyle(events[i])
    /\ SelectSeq(Atoms(events), NotStyle) \o CharAtoms(leftover)
           = SelectSeq(RefAtoms(Consumed, 1), NotStyle)

\* an attempt that failed at the final byte, the stream parsed to its end
C4_Witness ==
    /\ fed = Len(input)
    /\ \E i \in Escapes(input, "failed") : input[i + 1] = LBRACKET
    /\ \E e \in TextEvents : e.text[1] = ESC

\* C5: when what a call scanned ends inside an escape attempt, the
\* leftover is exactly the substring from that ESC on and the events of the
\* call are those of the characters before the ESC (the events the call
\* yields with the attempt replaced by a complete sequence without
\* function); every call scans the leftover of the call before it followed
\* by its chunk.
C5_PendingEscapeSaved ==
    /\ lastBuf = lastLeft \o lastChunk
    /\ PendingStart(lastBuf) > 0 =>
        /\ leftover = SubSeq(lastBuf, PendingStart(lastBuf), Len(lastBuf))
        /\ lastEvents =
              parse(<<>>, SubSeq(lastBuf, 1, PendingStart(lastBuf) - 1)
                          \o NoOpCsi).events
        /\ TextOf(lastEvents) =
              TextOf(SelectSeq(
                  RefAtoms(SubSeq(lastBuf, 1, PendingStart(lastBuf) - 1)
                           \o NoOpCsi, 1), IsText))

\* a call that began with a leftover, emitted text and ended inside a new
\* escape attempt
C5_Witness ==
    /\ PendingStart(lastBuf) > 1
    /\ lastLeft # <<>>
    /\ lastEvents # <<>>
    /\ leftover # <<>>

\* C6: while every escape sequence of the consumed stream is a well-formed
\* CSI sequence with a final byte other than 'm' (or still pending) and the
\* stream holds no BEL, every event is a Text event, and the Text payloads
\* are the stream without those sequences.
C6_UnsupportedCsiNoEvent ==
    (/\ \A i \in 1..fed : input[i] # BEL
     /\ Escapes(Consumed, "failed") = {}
     /\ \A i \in Escapes(Consumed, "csi") : EscapeAt(Consumed, i).final # CharM)
    => /\ \A i \in 1..Len(events) : IsText(events[i])
       /\ TextOf(events) \o leftover
              = TextOf(SelectSeq(RefAtoms(Consumed, 1), IsText))

\* a CSI sequence with parameter and intermediate bytes and a final byte
\* other than 'm', parsed in two calls, with text on both sides
C6_Witness ==
    /\ fed = Len(input)
    /\ lastLeft # <<>>
    /\ \E i \in Escapes(input, "csi") :
          /\ EscapeAt(input, i).final \notin {CharM, LBRACKET}
          /\ EscapeAt(input, i).params # <<>>
          /\ EscapeAt(input, i).end > i + 2 + Len(EscapeAt(input, i).params)
    /\ Len(events) = 2

\* C7: the Text and Bell events, in order, are the consumed stream with
\* its well-formed CSI sequences removed, a Bell standing for each BEL: one
\* Bell per BEL, the text before it emitted before it and the text after it
\* after it; a Bell directly follows a Text event exactly when text was
\* pending at its BEL.
C7_OneBellPerBel ==
    /\ SelectSeq(Atoms(events), NotStyle) \o CharAtoms(leftover)
           = SelectSeq(RefAtoms(Consumed, 1), NotStyle)
    /\ Cardinality({i \in 1..Len(events) : IsBell(events[i])})
           = Occurrences(BEL, Consumed)
    /\ BellPrev(events) = BellPrev(RefAtoms(Consumed, 1))

\* a BEL in the place of a CSI final byte, text before the attempt
C7_Witness ==
    /\ fed = Len(input)
    /\ \E i \in 2..(Len(input) - 2) :
          input[i] = ESC /\ input[i + 1] = LBRACKET /\ input[i + 2] = BEL
    /\ Len(events) >= 3
    /\ IsText(events[1]) /\ IsText(events[2]) /\ IsBell(events[3])

\* C8: the events, every Text cut into its characters, followed by the
\* leftover, are the consumed stream read in order: its characters, a Bell
\* for each BEL and, in the place of each SGR sequence, its style changes.
C8_StreamOrder ==
    Atoms(events) \o CharAtoms(leftover) = RefAtoms(Consumed, 1)

\* text, then the two style changes of one SGR sequence, then text
C8_Witness ==
    /\ fed = Len(input)
    /\ Len(events) = 4
    /\ IsText(events[1]) /\ IsStyle(events[2]) /\ IsStyle(events[3])
    /\ events[2] # events[3]
    /\ IsText(events[4])

\* C9: no exception escapes a parse call, and the leftover is empty or an
\* escape attempt the end of the input cut short.
C9_NeverRaises ==
    /\ lastExc = "none"
    /\ leftover = <<>> \/ (leftover[1] = ESC /\ PendingStart(leftover) = 1)

\* an SGR sequence selecting palette color 256, which Color refuses
C9_Witness ==
    /\ fed = Len(input)
    /\ input = SgrSequence(<<Decimal(38), Decimal(5), Decimal(256)>>, Semicolon)
    /\ events = <<>>

\* C10: an SGR sequence of the single parameter n yields, for n in 40..47,
\* the background Basic(n - 40), for n in 100..107 the bright background
\* Basic(n - 100), and for 49 the default background.
C10_BackgroundCodes ==
    \A n \in (40..47) \cup (100..107) \cup {49} :
        (fed = Len(input) /\ input = SgrSequence(<<Decimal(n)>>, Semicolon)) =>
            events = <<StyleEvent("BACKGROUND_COLOR",
                          IF n = 49 THEN NoValue
                          ELSE IF n < 100
                          THEN [tag |-> "NUMBERED_8", data |-> <<n - 40>>]
                          ELSE [tag |-> "NUMBERED_8_BRIGHT",
                                data |-> <<n - 100>>])>>

----------------------------------------------------------------------------
(* SGR claims: the stream is one SGR sequence, parsed to its end *)

\* the stream is ESC [ parameters m and has been parsed to its end
SgrDone ==
    /\ fed = Len(input)
    /\ Len(input) > 0
    /\ input[1] = ESC
    /\ EscapeAt(input, 1).kind = "csi"
    /\ EscapeAt(input, 1).final = CharM
    /\ EscapeAt(input, 1).end = Len(input)

\* the parameter string of the sequence and its parameters
SgrParams == EscapeAt(input, 1).params

SgrList == ReSplit(SgrParams)

HasColon == \E k \in 1..Len(SgrParams) : SgrParams[k] = Colon

\* the number a parameter stands for: 0 if empty, -1 if not an integer
ParamCode(p) ==
    IF Len(p) = 0 THEN 0
    ELSE IF \A k \in 1..Len(p) : IsDigit(p[k]) THEN IntValue(p)
    ELSE -1

\* the parameters of ps read as SGR codes of their own: not the arguments
\* of a 38 or 48 before them, and only the first one if there is a ':'
InterpretedOf(ps, colon) ==
    {i \in 1..Len(ps) :
        /\ i = 1 \/ ~colon
        /\ \A j \in 1..(i - 1) : ParamCode(ps[j]) \notin {38, 48}}

Interpreted == InterpretedOf(SgrList, HasColon)

\* the style changes emitted, in order
Styles == SelectSeq(events, IsStyle)

\* the style changes of the SGR sequence of the one parameter p
Single(p) == parse_sgr_sequence(p, <<>>).evs

RECURSIVE Compose(_)
\* the style changes of the parameters ps, each taken alone, in order
Compose(ps) ==
    IF Len(ps) = 0 THEN <<>> ELSE Single(ps[1]) \o Compose(Tail(ps))

\* the style change at the place of the i-th parameter of ps, the
\* parameters before it yielding the changes they yield alone, is ev
EmitsAtOf(ps, styles, i, ev) ==
    IF Len(ps) = 1 THEN styles = <<ev>>
    ELSE LET k == Len(Compose(SubSeq(ps, 1, i - 1)))
         IN  k < Len(styles) /\ styles[k + 1] = ev

\* every parameter of ps read as an SGR code whose number is in codes
\* yields the style change Event gives for it, at its place
CodesEmit(ps, colon, styles, codes, Event(_)) ==
    \A i \in InterpretedOf(ps, colon) :
        ParamCode(ps[i]) \in codes =>
            EmitsAtOf(ps, styles, i, Event(ParamCode(ps[i])))

BasicValue(tag, n) == [tag |-> tag, data |-> <<n>>]

ForegroundEvent(c) ==
    StyleEvent("FOREGROUND_COLOR",
               IF c = 39 THEN NoValue
               ELSE IF c < 90 THEN BasicValue("NUMBERED_8", c - 30)
               ELSE BasicValue("NUMBERED_8_BRIGHT", c - 90))

AttributeEvent(c) ==
    CASE c = 1 -> StyleEvent("WEIGHT", Value("Weight.BOLD"))
      [] c = 2 -> StyleEvent("WEIGHT", Value("Weight.THIN"))
      [] c = 22 -> StyleEvent("WEIGHT", Value("Weight.NORMAL"))
      [] c = 3 -> StyleEvent("ITALIC", Value("True"))
      [] c = 23 -> StyleEvent("ITALIC", Value("False"))
      [] c = 4 -> StyleEvent("UNDERLINE", Value("Underline.SINGLE"))
      [] c = 21 -> StyleEvent("UNDERLINE", Value("Underline.DOUBLE"))
      [] c = 24 -> StyleEvent("UNDERLINE", Value("Underline.NONE"))
      [] c = 8 -> StyleEvent("CONCEALED", Value("True"))
      [] c = 28 -> StyleEvent("CONCEALED", Value("False"))
      [] c = 9 -> StyleEvent("STRIKETHROUGH", Value("True"))
      [] c = 29 -> StyleEvent("STRIKETHROUGH", Value("False"))

AttributeCodes == {1, 2, 22, 3, 23, 4, 21, 24, 8, 28, 9, 29}

AllIn(ps, codes) == \A i \in 1..Len(ps) : ParamCode(ps[i]) \in codes

ResetEvent == StyleEvent("RESET", NoValue)

IsReset(e) == e = ResetEvent

ResetFor(c) == ResetEvent

ResetCount(ps, colon) ==
    Cardinality({i \in InterpretedOf(ps, colon) : ParamCode(ps[i]) = 0})

InvalidGroups ==
    {<<Decimal(5), Decimal(256)>>, <<Decimal(5), Decimal(999)>>,
     <<Decimal(5), <<60>>>>, <<Decimal(3), Decimal(1)>>}

\* C14: after a 38 or 48 with an invalid group, in a ';'-separated list,
\* no style change is emitted for the color and the parameter after the
\* group is still processed: 38 ; group ; 1 yields exactly Weight Bold.
C14_InvalidGroupSkipped ==
    \A sel \in {Decimal(38), Decimal(48)}, g \in InvalidGroups :
        (fed = Len(input)
         /\ input = SgrSequence(<<sel>> \o g \o <<Decimal(1)>>, Semicolon))
        => Styles = <<AttributeEvent(1)>>

Axis(c) == IF c = 38 THEN "FOREGROUND_COLOR" ELSE "BACKGROUND_COLOR"

IsInteger(p) == Len(p) > 0 /\ ParamCode(p) >= 0

\* ps is 38 or 48, then 5, then an index in 0..255
IsPalette(ps) ==
    /\ Len(ps) = 3
    /\ ParamCode(ps[1]) \in {38, 48}
    /\ ps[2] = Decimal(5)
    /\ IsInteger(ps[3])
    /\ ParamCode(ps[3]) \in 0..255

PaletteEvent(ps) ==
    StyleEvent(Axis(ParamCode(ps[1])),
               BasicValue("NUMBERED_256", ParamCode(ps[3])))

\* C15: 38, 5 and an index p in 0..255, separated by ';' or ':', yield
\* exactly one style change, the foreground color NUMBERED_256(p); 48, 5
\* and p exactly one, the background color NUMBERED_256(p).
C15_PaletteColor ==
    (SgrDone /\ IsPalette(SgrList)) => Styles = <<PaletteEvent(SgrList)>>

\* ESC [ 48 : 5 : 255 m, parsed in two calls
C15_Witness ==
    /\ SgrDone
    /\ lastLeft # <<>>
    /\ HasColon
    /\ SgrList = <<Decimal(48), Decimal(5), Decimal(255)>>
    /\ Len(Styles) = 1

\* ps is 38 or 48, then 2, then three integers or four
IsTrueColor(ps) ==
    /\ Len(ps) \in {5, 6}
    /\ ParamCode(ps[1]) \in {38, 48}
    /\ ps[2] = Decimal(2)
    /\ \A k \in 3..Len(ps) : IsInteger(ps[k])

\* the last three parameters as channels
TrueColorEvent(ps) ==
    StyleEvent(Axis(ParamCode(ps[1])),
               [tag |-> "TRUECOLOR",
                data |-> <<ParamCode(ps[Len(ps) - 2]),
                           ParamCode(ps[Len(ps) - 1]),
                           ParamCode(ps[Len(ps)])>>])

\* C16: 38 or 48, then 2 and exactly three integers r, g, b yield one
\* style change on that axis with TRUECOLOR (r, g, b); with exactly four
\* integers c, r, g, b they yield TRUECOLOR (r, g, b), c being ignored.
C16_TrueColor ==
    (SgrDone /\ IsTrueColor(SgrList)) => Styles = <<TrueColorEvent(SgrList)>>

\* ESC [ 38 ; 2 ; 9 ; 0 ; 7 ; 255 m: the colorspace id 9 is ignored
C16_Witness ==
    /\ SgrDone
    /\ SgrList = <<Decimal(38), Decimal(2), Decimal(9), Decimal(0),
                   Decimal(7), Decimal(255)>>
    /\ Len(Styles) = 1
    /\ Styles[1].value.data = <<0, 7, 255>>

\* with a ':' in the parameter string only the first parameter of ps is
\* read: the changes are those it yields alone, or one color of its axis
FirstOnly(ps, styles) ==
    /\ Len(styles) <= 1
    /\ ParamCode(ps[1]) \notin {38, 48} => styles = Single(ps[1])
    /\ ParamCode(ps[1]) \in {38, 48} =>
           \A k \in 1..Len(styles) :
               styles[k].change = Axis(ParamCode(ps[1]))

\* C17: if the parameter string contains a ':', only the first parameter
\* is read as an SGR code, the others being its arguments: at most one
\* style change is emitted, that of the first parameter.
C17_ColonFirstOnly ==
    (SgrDone /\ HasColon) => FirstOnly(SgrList, Styles)

\* ESC [ 1 : 4 ; 3 m yields Weight Bold alone
C17_Witness ==
    /\ SgrDone
    /\ SgrParams = Decimal(1) \o <<Colon>> \o Decimal(4) \o <<Semicolon>>
                   \o Decimal(3)
    /\ Styles = <<AttributeEvent(1)>>

\* no parameter of ps is 38 or 48
NoExtended(ps) == \A i \in 1..Len(ps) : ParamCode(ps[i]) \notin {38, 48}

\* C18: for parameters separated by ';' alone, none of them 38 or 48, the
\* style changes are those each parameter yields alone (at most one), in
\* the order of the parameters, a repeated parameter yielding its change
\* again.
C18_LeftToRight ==
    (SgrDone /\ ~HasColon /\ NoExtended(SgrList)) =>
        /\ Styles = Compose(SgrList)
        /\ \A i \in 1..Len(SgrList) : Len(Single(SgrList[i])) <= 1

\* ESC [ 1 ; 0 ; 1 m: bold, Reset, bold again
C18_Witness ==
    /\ SgrDone
    /\ ~HasColon
    /\ SgrList = <<Decimal(1), Decimal(0), Decimal(1)>>
    /\ Styles = <<AttributeEvent(1), ResetEvent, AttributeEvent(1)>>

\* the codes with a style change of their own
TableCodes ==
    (0..4) \cup {8, 9} \cup (21..24) \cup (28..49) \cup (90..97)
    \cup (100..107)

\* the style changes of a list of no-op parameters and '1's
BoldPerOne(ps) ==
    [k \in 1..Cardinality({i \in 1..Len(ps) : ParamCode(ps[i]) = 1})
        |-> AttributeEvent(1)]

\* every parameter of ps is '1' or has no style change of its own: a code
\* outside the table or no integer at all
OnesAndNoOps(ps) ==
    \A i \in 1..Len(ps) :
        ParamCode(ps[i]) = 1 \/ ParamCode(ps[i]) \notin TableCodes

\* C19: the parameters 5, 6, 7, 10..20, 25..27, 50..65, every other
\* integer outside the table and every non-integer yield no event and no
\* error, and in a ';'-separated list the '1' before or after them still
\* yields Weight Bold.
C19_NoOpCodes ==
    (SgrDone /\ ~HasColon /\ OnesAndNoOps(SgrList)) =>
        /\ lastExc = "none"
        /\ Styles = BoldPerOne(SgrList)

\* ESC [ < ; 1 m: the non-integer is skipped, the 1 yields bold
C19_Witness ==
    /\ SgrDone
    /\ ~HasColon
    /\ SgrList = <<<<60>>, Decimal(1)>>
    /\ Styles = <<AttributeEvent(1)>>

\* C20: every color carried by a style change is in range: the index of
\* a NUMBERED_256 color and every channel of a TRUECOLOR color is in
\* 0..255.
C20_ColorsInRange ==
    \A i \in 1..Len(events) :
        (IsStyle(events[i])
         /\ events[i].value.tag \in {"NUMBERED_256", "TRUECOLOR"})
        => \A k \in 1..Len(events[i].value.data) :
               events[i].value.data[k] \in 0..255

----------------------------------------------------------------------------
(* The displayed style, stated on the events *)

Axes ==
    {"FOREGROUND_COLOR", "BACKGROUND_COLOR", "STRIKETHROUGH", "WEIGHT",
     "ITALIC", "UNDERLINE", "CONCEALED"}

\* the default of each axis
DefaultOf(axis) ==
    CASE axis \in {"ITALIC", "STRIKETHROUGH", "CONCEALED"} -> Value("False")
      [] axis = "WEIGHT" -> Value("Weight.NORMAL")
      [] axis = "UNDERLINE" -> Value("Underline.NONE")
      [] OTHER -> NoValue

\* the index in events of the j-th Text event; past the end for the text
\* still to come
TextAt(j) ==
    IF j > Len(shown) THEN Len(events) + 1
    ELSE CHOOSE i \in 1..Len(events) :
            /\ IsText(events[i])
            /\ Cardinality({k \in 1..i : IsText(events[k])}) = j

\* the tags of the j-th text; of the text still to come past the last
TagsAt(j) == IF j > Len(shown) THEN active_text_tags ELSE shown[j].tags

\* the index of the last style change before events[i] on one of the axes
\* of S, Reset counting as one if S holds it; 0 if there is none
LastChange(i, S) ==
    LET ks == {k \in 1..(i - 1) :
                  IsStyle(events[k]) /\ events[k].change \in S}
    IN IF ks = {} THEN 0 ELSE CHOOSE k \in ks : \A l \in ks : l <= k

\* the style change at events[k] is a Reset
ResetAt(k) == k > 0 /\ events[k].change = "RESET"

\* the style change at events[k] sets axis to a value that is not its default
SetsAt(k, axis) ==
    k > 0 /\ events[k].change = axis /\ events[k].value # DefaultOf(axis)

\* the insert_data calls are the Text events, in order
ShownIsText ==
    /\ Len(shown) = Len(SelectSeq(events, IsText))
    /\ \A j \in 1..Len(shown) : shown[j].text = events[TextAt(j)].text

\* C21: text that follows a Reset, with no other style change in between,
\* is displayed with no tag at all, whatever was active before the Reset
C21_ResetClearsAll ==
    /\ ShownIsText
    /\ \A j \in 1..(Len(shown) + 1) :
          ResetAt(LastChange(TextAt(j), Axes \cup {"RESET"}))
              => DOMAIN TagsAt(j) = {}

\* a text with two tags, a Reset, and the text after it
C21_Witness ==
    \E j \in 2..Len(shown) :
        /\ Cardinality(DOMAIN shown[j - 1].tags) >= 2
        /\ ResetAt(LastChange(TextAt(j), Axes \cup {"RESET"}))
        /\ DOMAIN shown[j].tags = {}

\* the tag of axis on the text at events[i], given the last change k that
\* is a Reset or on that axis
AxisHolds(tags, axis, k) ==
    /\ axis \in DOMAIN tags <=> SetsAt(k, axis)
    /\ axis \in DOMAIN tags =>
          /\ tags[axis].some
          /\ tags[axis].change = axis
          /\ tags[axis].value = events[k].value

\* C22: each axis of a displayed text holds the value of the last style
\* change on that axis since the last Reset and nothing else: it is absent
\* if there is none or that value is the default, whatever changes were
\* made on the other axes
C22_AxesIndependent ==
    \A j \in 1..(Len(shown) + 1) :
        /\ DOMAIN TagsAt(j) \subseteq Axes
        /\ \A axis \in Axes :
              AxisHolds(TagsAt(j), axis,
                        LastChange(TextAt(j), {axis, "RESET"}))

\* a text with one tag, the next with a second tag added, and the next
\* with the second tag replaced by another value of its axis, the first kept
C22_Witness ==
    /\ Len(shown) = 4
    /\ \E a \in Axes, b \in Axes :
          /\ a # b
          /\ DOMAIN shown[2].tags = {a}
          /\ DOMAIN shown[3].tags = {a, b}
          /\ DOMAIN shown[4].tags = {a, b}
          /\ shown[4].tags[a] = shown[3].tags[a]
          /\ shown[4].tags[b] # shown[3].tags[b]

----------------------------------------------------------------------------
(* The Text events of one call *)

\* the BEL and ESC characters of s
FlushPoints(s) == Occurrences(BEL, s) + Occurrences(ESC, s)

\* C23: a parse call emits at most one Text event more than there are BEL
\* and ESC characters in leftover + chunk, and a call with empty leftover
\* on a non-empty chunk without BEL and ESC emits one Text event, the chunk
C23_OneTextPerRun ==
    /\ Len(SelectSeq(lastEvents, IsText)) <= FlushPoints(lastBuf) + 1
    /\ lastLeft = <<>> /\ lastChunk # <<>> /\ FlushPoints(lastChunk) = 0
          => lastEvents = <<TextEvent(lastChunk)>>

\* a call with empty leftover on three or more characters of plain text
C23_Witness ==
    /\ lastLeft = <<>>
    /\ Len(lastChunk) >= 3
    /\ FlushPoints(lastChunk) = 0
    /\ lastEvents = <<TextEvent(lastChunk)>>

----------------------------------------------------------------------------
(* The PositionedIterator, stated on the wrapped string and the indexes *)

\* C24: the next() that follows a backtrack() returns the element, and
\* leaves pos at the index, that the next() right before the matching
\* waypoint() had returned, whatever was called in between; the waypoints
\* are used last set first, and each is used once
C24_BacktrackRestores ==
    /\ Len(iter.waypoints) = Len(marks)
    /\ ret.op = "next" /\ ret.restored.set =>
          /\ ret.exc = "none"
          /\ ret.val = <<ret.restored.elem>>
          /\ iter.pos = ret.restored.index

\* the inner of two waypoints restored, past the first element, and the
\* element received again
C24_Witness ==
    /\ ret.op = "next"
    /\ ret.restored.set
    /\ ret.restored.index >= 1
    /\ Len(marks) = 1
    /\ marks[1].set
    /\ marks[1].index < ret.restored.index
    /\ ret.val = <<ret.restored.elem>>

\* takewhile_greedy(ret.f) called at pos0, k being the place in wrapped of
\* the first element after pos0 that fails the test
TakewhileHolds(k) ==
    IF k <= Len(wrapped)
    THEN /\ ret.exc = "none"
         /\ ret.val = SubSeq(wrapped, ret.pos0 + 2, k - 1)
         /\ iter.pos + 2 = k
    ELSE ret.exc = "StopIteration"

\* C25: takewhile_greedy(f) returns the elements from the next one up to,
\* not including, the first that fails f, and the next element to be
\* received is that one; if no remaining element fails f it raises
\* StopIteration
C25_TakewhileGreedy ==
    ret.op = "takewhile_greedy" =>
        TakewhileHolds(FirstNot(wrapped, ret.pos0 + 2, ret.f))

\* a slice that is not empty, taken past the first element, the last
\* element of the string failing the test
C25_Witness ==
    /\ ret.op = "takewhile_greedy"
    /\ ret.exc = "none"
    /\ ret.pos0 >= 0
    /\ Len(ret.val) >= 1
    /\ iter.pos + 2 = Len(wrapped)

\* C26: take(n) with n elements left returns wrapped[pos+1 .. pos+n] and
\* advances pos by n; with fewer left it raises StopIteration
C26_Take ==
    ret.op = "take" =>
        IF ret.pos0 + ret.n < Len(wrapped)
        THEN /\ ret.exc = "none"
             /\ ret.val = Slice(wrapped, ret.pos0 + 1, ret.pos0 + 1 + ret.n)
             /\ iter.pos = ret.pos0 + ret.n
        ELSE ret.exc = "StopIteration"

\* two elements taken, one left
C26_Witness ==
    /\ ret.op = "take"
    /\ ret.n = 2
    /\ ret.exc = "none"
    /\ Len(ret.val) = 2
    /\ iter.pos + 2 = Len(wrapped)

\* C27: empty() is true exactly if pos + 1 is the length of the string,
\* which is exactly when next() raises StopIteration; neither empty() nor
\* a next() that raises StopIteration changes pos, and a next() after one
\* that raised StopIteration raises it again
C27_Empty ==
    /\ ret.op = "empty" =>
          /\ ret.flag <=> ret.pos0 + 1 = Len(wrapped)
          /\ iter.pos = ret.pos0
    /\ ret.op = "next" =>
          /\ ret.exc = "StopIteration" <=> ret.pos0 + 1 = Len(wrapped)
          /\ ret.exc = "StopIteration" => iter.pos = ret.pos0
    /\ ret.op = "next" /\ ret.afterStop =>
          /\ ret.exc = "StopIteration"
          /\ iter.pos + 1 = Len(wrapped)

\* empty() true right after a next() that raised StopIteration at the end
\* of a string of two or more elements
C27_Witness ==
    /\ ret.op = "empty"
    /\ ret.flag
    /\ ret.afterStop
    /\ Len(wrapped) >= 2

\* what holds while next() is all that was called, and after each next()
IterationHolds ==
    /\ ret.op = "__init__" => iter.pos = -1
    /\ got.pure =>
          /\ got.elems = SubSeq(wrapped, 1, iter.pos + 1)
          /\ ret.exc = "StopIteration" => got.elems = wrapped
    /\ ret.op = "next" /\ ret.exc = "none" =>
          /\ iter.pos \in 0..(Len(wrapped) - 1)
          /\ ret.val = <<wrapped[iter.pos + 1]>>

\* C28: a fresh iterator has pos -1; next() alone, until it raises
\* StopIteration, returns the elements of the wrapped string, each once, in
\* order; each next() returns wrapped[pos]; no call changes wrapped
C28_Iteration == []IterationHolds /\ [][wrapped' = wrapped]_vars

\* a string of three elements received whole
C28_Witness ==
    /\ got.pure
    /\ ret.exc = "StopIteration"
    /\ Len(wrapped) = 3
    /\ got.elems = wrapped

----------------------------------------------------------------------------
(* The color cube of the palette *)

\* the channel value of the cube axis value x, times 255
CubeLevel(x) == IF x = 0 THEN 0 ELSE 40 * x + 55

\* the axis values of the palette index n
CubeAxesOf(n) ==
    {t \in (0..5) \X (0..5) \X (0..5) : n = 16 + 36 * t[1] + 6 * t[2] + t[3]}

\* the red, green and blue channels of to_gdk()'s result
Rgb == SubSeq(rgba.channels, 1, 3)

\* C29: the palette index 16 + 36r + 6g + b with r, g, b in 0..5 converts
\* to the channels f(r)/255, f(g)/255, f(b)/255, f(0) = 0 and
\* f(x) = 40x + 55 otherwise, and every index in 16..231 is of that form
\* for exactly one r, g, b
C29_ColorCube ==
    color.tag = "NUMBERED_256" /\ color.data[1] \in 16..231
        /\ rgba # NoRgba =>
            /\ Cardinality(CubeAxesOf(color.data[1])) = 1
            /\ rgba.kind = "rgba"
            /\ \A t \in CubeAxesOf(color.data[1]) :
                  Rgb = <<<<CubeLevel(t[1]), 255>>, <<CubeLevel(t[2]), 255>>,
                          <<CubeLevel(t[3]), 255>>>>

\* the index 16 + 36 * 5 + 6 * 0 + 3 converted to 255/255, 0/255, 175/255
C29_Witness ==
    /\ color = [tag |-> "NUMBERED_256", data |-> <<199>>]
    /\ rgba.kind = "rgba"
    /\ Rgb = <<<<255, 255>>, <<0, 255>>, <<175, 255>>>>

----------------------------------------------------------------------------
(* The history, stated on the entries of the foreground executable *)

\* the entries stored for the foreground executable, oldest first
OwnEntries ==
    LET own == {i \in 1..Len(hist) : hist[i].exe = exe}
        Nth(k) == CHOOSE i \in own : Cardinality({j \in own : j <= i}) = k
    IN [k \in 1..Cardinality(own) |-> hist[Nth(k)].entry]

\* C30: get_entry(fd, offset) returns the entry of the foreground
\* executable that is offset entries before its latest one: the latest for
\* offset zero, the one before it for offset one; it returns None if there
\* is no such entry, and never an entry of another executable
C30_OffsetFromLatest ==
    found.called =>
        IF found.offset \in 0..(Len(OwnEntries) - 1)
        THEN /\ found.res.some
             /\ found.res.entry = OwnEntries[Len(OwnEntries) - found.offset]
        ELSE ~found.res.some

\* s without the newlines at its end
Stripped(s) ==
    LET ks == {k \in 1..Len(s) : s[k] # 10}
    IN IF ks = {} THEN <<>>
       ELSE SubSeq(s, 1, CHOOSE k \in ks : \A j \in ks : j <= k)

\* the last n rows of table, all of them if there are no more than n
Newest(table, n) ==
    IF Len(table) <= n THEN table
    ELSE SubSeq(table, Len(table) - n + 1, Len(table))

\* the table has no more rows than histsize, none of them empty
HistoryBounded ==
    /\ Len(hist) <= HistSize
    /\ \A i \in 1..Len(hist) : hist[i].entry # <<>>

\* what an add_entry(fd, line) step does to the table
AddEntryHolds(line) ==
    IF Stripped(line) = <<>> THEN hist' = hist
    ELSE hist' = Newest(Append(hist, [exe |-> exe,
                                      entry |-> Stripped(line)]), HistSize)

\* C31: the table never has more than histsize rows; add_entry of a line
\* that is empty without its trailing newlines leaves the table as it is,
\* and of any other line appends it and keeps the newest histsize rows, the
\* new one among them
C31_HistoryBounded ==
    /\ []HistoryBounded
    /\ [][found'.line # <<>> => AddEntryHolds(found'.line)]_vars

\* an entry added to a full table: the oldest row gone, the new one last
C31_Witness ==
    /\ found.line # <<>>
    /\ found.was = HistSize
    /\ Len(hist) = HistSize
    /\ hist[HistSize] = [exe |-> exe, entry |-> Stripped(found.line)]
    /\ hist[1] # hist[HistSize]


----------------------------------------------------------------------------
(* C32: a failed escape attempt and the ESC that started it *)

\* iteration r started an escape attempt
Attempted(r) == r.code = ESC /\ ~r.ignored

\* the attempt of iteration r failed: not '[' after ESC, or a bad sequence
Failed(r) == Attempted(r) /\ r.flag

\* iteration r examined an ESC again, as a character of the text
Reexamined(r, f) ==
    /\ r.pos = f.pos /\ r.code = ESC
    /\ r.ignored /\ ~r.flag
    /\ r.after = r.pos /\ r.wps = f.depth
    /\ r.start = f.pos /\ ~r.saved

\* what a failed attempt leaves behind
Rewound(f) ==
    /\ f.after = f.pos - 1
    /\ f.wps = f.depth
    /\ f.start = f.pos
    /\ ~f.saved

AttemptsAt(t, p) == {i \in 1..Len(t) : Attempted(t[i]) /\ t[i].pos = p}

FailedAttempts(t) ==
    \A i \in 1..Len(t) :
        /\ Failed(t[i]) =>
            /\ Rewound(t[i])
            /\ i < Len(t) => Reexamined(t[i + 1], t[i])
        /\ t[i].ignored => i > 1 /\ Failed(t[i - 1])
        /\ t[i].code = ESC /\ (i = 1 \/ ~Failed(t[i - 1])) => Attempted(t[i])
        /\ Cardinality(AttemptsAt(t, t[i].pos)) <= 1

\* C32: a failed escape attempt leaves the cursor one before its ESC, the
\* waypoint stack as deep as before the attempt (the waypoints of earlier
\* sequences still on it), and the loop running; the next iteration examines
\* the same ESC with the ignore flag set, starts no attempt, leaves the ESC
\* as the first pending text character and clears the flag; the flag is set
\* at no other iteration, every other ESC starts an attempt, and no position
\* starts two attempts.
C32_FailedAttempt ==
    /\ FailedAttempts(scan.trace)
    /\ scan.trace # <<>> /\ Failed(scan.trace[Len(scan.trace)]) =>
        scan.running /\ scan.st.exc = "none"

\* ESC [ m ESC ESC: the second ESC fails with one earlier waypoint on the
\* stack, is examined again as text, and the third ESC starts a new attempt
C32_Witness ==
    /\ scan.w = <<ESC, LBRACKET, CharM, ESC, ESC>>
    /\ Len(scan.trace) = 4
    /\ Attempted(scan.trace[1]) /\ ~Failed(scan.trace[1])
    /\ Failed(scan.trace[2]) /\ scan.trace[2].depth = 1
    /\ scan.trace[2].pos = 3
    /\ Reexamined(scan.trace[3], scan.trace[2])
    /\ Attempted(scan.trace[4]) /\ scan.trace[4].pos = 4


----------------------------------------------------------------------------
(* C33: the for loop of parse ends *)

ExaminedAt(t, p) == {i \in 1..Len(t) : t[i].pos = p}

RECURSIVE Dropped(_, _)
\* how many characters of w from index i on are a BEL or belong to a
\* well-formed CSI sequence
Dropped(w, i) ==
    IF i > Len(w) THEN 0
    ELSE IF w[i] = BEL THEN 1 + Dropped(w, i + 1)
    ELSE IF w[i] = ESC /\ EscapeAt(w, i).kind = "csi"
    THEN EscapeAt(w, i).end - i + 1 + Dropped(w, EscapeAt(w, i).end + 1)
    ELSE Dropped(w, i + 1)

IsSuffix(t, w) == Len(t) <= Len(w) /\ t = SubSeq(w, Len(w) - Len(t) + 1, Len(w))

\* every position is examined by the loop once, or twice if it holds an ESC
\* whose attempt failed
ScanBounded(sc) ==
    /\ Len(sc.trace) <= 2 * Len(sc.w)
    /\ \A p \in 0..(Len(sc.w) - 1) :
        /\ Cardinality(ExaminedAt(sc.trace, p)) <= 2
        /\ Cardinality(ExaminedAt(sc.trace, p)) = 2 =>
            \E i \in ExaminedAt(sc.trace, p) : Failed(sc.trace[i])
    /\ \A i \in 1..Len(sc.trace) : sc.trace[i].pos \in 0..(Len(sc.w) - 1)

\* the loop has ended without an exception, the iterator is empty, no text
\* is pending, and what was not emitted or dropped is the leftover
ScanEnded(sc) ==
    /\ sc.st.exc = "none"
    /\ ItEmpty(sc.w, sc.st.it)
    /\ sc.st.start = Len(sc.w)
    /\ IsSuffix(sc.st.leftover, sc.w)
    /\ Len(TextOf(sc.st.out)) + Dropped(sc.w, 1) + Len(sc.st.leftover)
        = Len(sc.w)

\* C33: the for loop of every parse call ends; no position is examined by
\* the loop more than twice, and twice only for an ESC whose attempt failed;
\* when the loop has ended no exception has escaped, the iterator is empty,
\* and every character was emitted as text, dropped as a BEL or as part of a
\* well-formed CSI sequence, or is in the leftover, a suffix of the string.
C33_Terminates ==
    /\ <>(~scan.running)
    /\ [](ScanBounded(scan) /\ (~scan.running => ScanEnded(scan)))

\* 1 ESC 1 BEL ESC: the first ESC was examined twice, the second is the
\* leftover, and the loop has ended after six iterations
C33_Witness ==
    /\ scan.w = <<49, ESC, 49, BEL, ESC>>
    /\ ~scan.running
    /\ Len(scan.trace) = 6
    /\ Cardinality(ExaminedAt(scan.trace, 1)) = 2
    /\ scan.st.leftover = <<ESC>>
    /\ TextOf(scan.st.out) = <<49, ESC, 49>>


----------------------------------------------------------------------------
(* C35: history navigation *)

\* the line the claim has at index k: 0 is the line entered last
LineAt(rows, k) == rows[Len(rows) - k].entry

\* what the claim expects of a history-entry(idx) request made at index i
Expected(rows, i, idx, line) ==
    IF i + idx \in 0..(Len(rows) - 1)
    THEN [hist_index |-> i + idx, cmdline |-> LineAt(rows, i + idx)]
    ELSE IF idx > 0
    THEN [hist_index |-> i, cmdline |-> line]
    ELSE [hist_index |-> -1, cmdline |-> <<>>]

\* C35: from the reset index, with a line entered for the foreground
\* executable, history-entry(+1) puts the line entered last in the input
\* line and each further +1 the next older one; a +1 with no older entry
\* changes neither the index nor the input line; a -1 with no newer entry
\* resets the index and clears the input line.
C35_Navigation ==
    asked.idx # 0 =>
        /\ hist_index = Expected(RowsOf(hist, exe), asked.index, asked.idx,
                                 asked.line).hist_index
        /\ cmdline = Expected(RowsOf(hist, exe), asked.index, asked.idx,
                              asked.line).cmdline


----------------------------------------------------------------------------
(* C36..C39: the leftover and the text over a chunked stream *)

\* s is empty, ESC, or ESC [ parameter bytes intermediate bytes
CsiPrefix(s) ==
    \/ s = <<>>
    \/ /\ s[1] = ESC
       /\ \/ Len(s) = 1
          \/ /\ s[2] = LBRACKET
             /\ FirstNot(s, FirstNot(s, 3, "param"), "inter") > Len(s)

\* C36: after every call that was consumed to its end, the leftover is
\* empty, or ESC, or ESC [ followed by parameter bytes and then intermediate
\* bytes; it holds no BEL and no second ESC, and it is a suffix of the
\* previous leftover followed by the chunk.
C36_LeftoverShape ==
    /\ CsiPrefix(leftover)
    /\ Occurrences(BEL, leftover) = 0
    /\ Occurrences(ESC, leftover) <= 1
    /\ IsSuffix(leftover, lastLeft \o lastChunk)

\* ESC [ was left by the call before, and this call adds a parameter byte
\* and an intermediate byte to it
C36_Witness ==
    /\ lastLeft = <<ESC, LBRACKET>>
    /\ lastChunk = <<49, 32>>
    /\ leftover = <<ESC, LBRACKET, 49, 32>>

RECURSIVE Kept(_, _)
\* w from index i on without its BELs and its well-formed CSI sequences
Kept(w, i) ==
    IF i > Len(w) THEN <<>>
    ELSE IF w[i] = BEL THEN Kept(w, i + 1)
    ELSE IF w[i] = ESC /\ EscapeAt(w, i).kind = "csi"
    THEN Kept(w, EscapeAt(w, i).end + 1)
    ELSE <<w[i]>> \o Kept(w, i + 1)

\* C37: after any sequence of calls consumed to their end, the Text
\* payloads in order followed by the leftover are the characters handed
\* over so far without the BELs and the well-formed CSI sequences: nothing
\* else is dropped and nothing is emitted twice.
C37_Conservation ==
    /\ lastExc = "none"
    /\ TextOf(events) \o leftover = Kept(Consumed, 1)

\* a CSI sequence cut after ESC [ is dropped once complete, the text before
\* it is kept
C37_Witness ==
    /\ input = <<49, ESC, LBRACKET, CharM>>
    /\ fed = 4
    /\ lastLeft = <<ESC, LBRACKET>>
    /\ TextOf(events) = <<49>>
    /\ leftover = <<>>

\* C38: the events of the chunked calls with adjacent Text events merged
\* are the events of one call on the same characters with adjacent Text
\* events merged, and the leftover is the leftover of that one call.
C38_ChunkingCutsText ==
    /\ MergeText(events) = MergeText(parse(<<>>, Consumed).events)
    /\ leftover = parse(<<>>, Consumed).leftover

\* 1 1 ESC [ in three chunks: two Text events where one call gives one, and
\* the same leftover
C38_Witness ==
    /\ input = <<49, 49, ESC, LBRACKET>>
    /\ fed = 4
    /\ lastLeft = <<ESC>>
    /\ events = <<TextEvent(<<49>>), TextEvent(<<49>>)>>
    /\ parse(<<>>, input).events = <<TextEvent(<<49, 49>>)>>
    /\ leftover = <<ESC, LBRACKET>>

\* C39: no Text event has an empty payload; a call whose characters are
\* all BELs, well-formed CSI sequences or leftover yields no Text event.
C39_NoEmptyText ==
    /\ \A i \in 1..Len(events) : IsText(events[i]) => events[i].text # <<>>
    /\ Kept(lastLeft \o lastChunk, 1) = leftover =>
        \A i \in 1..Len(lastEvents) : ~IsText(lastEvents[i])

\* BEL BEL ESC, then [ : two Bells with no Text between them, and a call
\* that saves all it was given
C39_Witness ==
    /\ input = <<BEL, BEL, ESC, LBRACKET>>
    /\ fed = 4
    /\ events = <<BellEvent, BellEvent>>
    /\ lastLeft = <<ESC>>
    /\ lastChunk = <<LBRACKET>>
    /\ lastEvents = <<>>
    /\ leftover = <<ESC, LBRACKET>>


----------------------------------------------------------------------------
(* C40: the range of pos and of the waypoints *)

InRange(it, L, top) ==
    /\ it.pos \in -1..(L - 1)
    /\ \A i \in 1..Len(it.waypoints) : it.waypoints[i] \in -1..top

\* C40 (as stated): pos is in -1..L-1 and every waypoint in -1..L-2.
C40_WaypointsBelowLast == InRange(iter, Len(wrapped), Len(wrapped) - 2)

\* C40 (amended): pos is in -1..L-1 and every waypoint in -1..L-2, or -1
\* when the string is empty; so the index pos + 1 that next() reads is never
\* negative, whatever waypoint backtrack() returned to.
C40_PositionsInRange ==
    InRange(iter, Len(wrapped), Max(Len(wrapped) - 2, -1))

\* a waypoint set at the last element, and a next() that failed after it
C40_Witness ==
    /\ Len(wrapped) = 3
    /\ iter.waypoints = <<-1, 1>>
    /\ iter.pos = 2
    /\ ret.op = "next" /\ ret.exc = "StopIteration"


----------------------------------------------------------------------------
(* C34: two calls of parse and the order in which their events are asked for *)

\* what the two calls give when the first is drained before the second
Drained1 == parse(<<>>, gens[1].chunk)

Drained2 == parse(Drained1.leftover, gens[2].chunk)

AsDrained ==
    /\ events = Drained1.events \o Drained2.events
    /\ leftover = Drained2.leftover

SecondStarted == Len(gens) = 2 /\ gens[2].phase # "created"

BothDone ==
    Len(gens) = 2 /\ gens[1].phase = "done" /\ gens[2].phase = "done"

\* the second call started after the end of the first call's sequence
StartedDrained == SecondStarted /\ gens[2].prev.phase = "done"

\* the second call started before the end of the first call's sequence
StartedEarly == SecondStarted /\ gens[2].prev.phase # "done"

\* ... and after the first had scanned its input to the end
StartedAfterScan ==
    StartedEarly /\ gens[2].prev.phase = "running" /\ gens[2].prev.scanned

\* ... and before that
StartedBeforeScan == StartedEarly /\ ~StartedAfterScan

SeesLeftover == gens[2].seen = Drained1.leftover

DrainedCalls ==
    StartedDrained => SeesLeftover /\ (BothDone => AsDrained)

InterleavedCalls ==
    /\ DrainedCalls
    /\ StartedAfterScan => SeesLeftover
    /\ StartedBeforeScan => gens[2].seen = <<>>
    /\ /\ StartedBeforeScan /\ gens[2].prev.phase = "running"
       /\ Drained1.leftover # <<>> /\ gens[2].chunk # <<>>
       /\ BothDone
       => ~AsDrained

====
